---- MODULE Spec2Model ----
(***************************************************************************)
(* Model of the find-optimal-route edge function of "Before You Take"      *)
(* (supabase/functions/find-optimal-route/index.ts): the request handler,  *)
(* the provider adapters, station screening, candidate generation and the  *)
(* selection / response builder.  One action per stretch of code between   *)
(* two awaited provider calls; provider answers are drawn from small sets. *)
(***************************************************************************)
EXTENDS Integers, Sequences, FiniteSets, TLC

(***************************************************************************)
(* Bounds of the model (not program constants).                            *)
(***************************************************************************)
\* longest itinerary list the transit provider returns for origin -> destination
MaxItins == 2
\* most stations the POI provider returns in one request, both searches together
MaxStations == 2

(***************************************************************************)
(* Program constants.                                                      *)
(***************************************************************************)
WALK_SPEED_M_PER_MIN == 70
TAXI_PICKUP_BUFFER_MIN == 2
DROPOFF_TO_PLATFORM_BUFFER_MIN == 1
SUBWAY_TRANSFER_WALK_MIN == 3
BUS_TRANSFER_WALK_MIN == 1
TAXI_ROI_WINDOW_PRIMARY == <<6, 9>>
\* mutant: an expanded window that starts above the primary one
TAXI_ROI_WINDOW_EXPAND_LATE == <<7, 12>>
TAXI_ROI_WINDOW_EXPAND == <<5, 12>>
MAX_STATION_CANDIDATES == 15
SHORT_WALK_LIMIT_M == 700
MIN_SCREENED_STATIONS == 5
TRANSIT_ONLY_ITINERARIES == 5
MIXED_ITINERARIES == 3
MAX_FEASIBLE_ROUTES == 10
MAX_FALLBACK_ROUTES == 5
TAXI_BASE_FARE == 4800

(***************************************************************************)
(* JavaScript values.  A number is an integer; the three values below are  *)
(* the non-numbers the code meets: a field that is absent (undefined), the *)
(* result of arithmetic on an absent field (NaN) and JSON null.            *)
(***************************************************************************)
Undefined == 0 - 1000001
NaN == 0 - 1000002
JsNull == 0 - 1000003

IsNum(x) == x \notin {Undefined, NaN, JsNull}

\* Math.ceil(x / d) for an integer x; NaN when x is absent
MathCeilDiv(x, d) == IF IsNum(x) THEN 0 - ((0 - x) \div d) ELSE NaN

JsAdd(a, b) == IF IsNum(a) /\ IsNum(b) THEN a + b ELSE NaN
JsSub(a, b) == IF IsNum(a) /\ IsNum(b) THEN a - b ELSE NaN
\* a <= b: false as soon as one side is NaN
JsLe(a, b) == IsNum(a) /\ IsNum(b) /\ a <= b
\* x || d for a number x: d when x is absent, NaN or 0
JsOr(x, d) == IF IsNum(x) /\ x # 0 THEN x ELSE d

Min(a, b) == IF a <= b THEN a ELSE b
\* arr.slice(0, n)
Slice(s, n) == SubSeq(s, 1, Min(Len(s), n))

\* sequences over S of length at most n
SeqsUpTo(S, n) == UNION {[1..k -> S] : k \in 0..n}

(***************************************************************************)
(* Geo/Time utilities.                                                     *)
(***************************************************************************)
\* mutant: the two transfer weights change places
estimateWalkTimeMinSwapped(totalWalkM, subwayTransfers, busTransfers) ==
    MathCeilDiv(totalWalkM, WALK_SPEED_M_PER_MIN)
    + subwayTransfers * BUS_TRANSFER_WALK_MIN
    + busTransfers * SUBWAY_TRANSFER_WALK_MIN
estimateWalkTimeMin(totalWalkM, subwayTransfers, busTransfers) ==
    LET outdoorWalkMin == MathCeilDiv(totalWalkM, WALK_SPEED_M_PER_MIN)
        subwayTransferWalkMin == subwayTransfers * SUBWAY_TRANSFER_WALK_MIN
        busTransferWalkMin == busTransfers * BUS_TRANSFER_WALK_MIN
    IN  outdoorWalkMin + subwayTransferWalkMin + busTransferWalkMin

(***************************************************************************)
(* The request.  The handler reads origin, destination, maxTimeMin and     *)
(* maxWalkMin from the JSON body; distanceM stands for the great-circle    *)
(* distance calculateDistance derives from the two coordinates.            *)
(***************************************************************************)
OriginName == "origin"
DestinationName == "destination"
\* the request's departureTime, in milliseconds since the epoch
DepartureMs == 1000000000

BodyTimes == {Undefined, 0, 20, 40}
BodyWalks == {Undefined, 0 - 1, 15}
BodySegments == {0, 1}
BodyDistances == {0, 650, 699, 700}

Bodies ==
    [hasOrigin : BOOLEAN, hasDestination : BOOLEAN,
     maxTimeMin : BodyTimes, maxWalkMin : BodyWalks,
     requireTaxi : BOOLEAN, taxiMaxSegments : BodySegments,
     distanceM : BodyDistances]

(***************************************************************************)
(* Transit itineraries (TmapTransitResponse.metaData.plan.itineraries).    *)
(* totalTime is in seconds; fare stands for fare.regular.totalFare; a leg  *)
(* keeps its mode and distance.                                            *)
(***************************************************************************)
WalkLeg(m) == [mode |-> "WALK", distance |-> m]
RideLeg(mode) == [mode |-> mode, distance |-> 5000]

\* 30 min, one subway: walk 5 + 3 = 8 min
ItinSubway ==
    [totalTime |-> 1800, fare |-> 1500, pathType |-> 1,
     legs |-> <<WalkLeg(200), RideLeg("SUBWAY"), WalkLeg(150)>>]
\* 24 min 50 s, two buses: walk 18 + 2 = 20 min, same fare as ItinSubway
ItinBus ==
    [totalTime |-> 1490, fare |-> 1500, pathType |-> 2,
     legs |-> <<WalkLeg(1200), RideLeg("BUS"), RideLeg("BUS")>>]
\* 29 min 50 s, one bus: as long and as dear as ItinSubway, walk 1 + 1 min
ItinBusTie ==
    [totalTime |-> 1790, fare |-> 1500, pathType |-> 2,
     legs |-> <<WalkLeg(70), RideLeg("BUS")>>]
\* a payload without totalTime, fare and pathType
ItinNoTime ==
    [totalTime |-> Undefined, fare |-> Undefined, pathType |-> Undefined,
     legs |-> <<RideLeg("BUS")>>]
\* 11 min 40 s from or to a station, no fare field, no pathType: walk 2 + 3
ItinShort ==
    [totalTime |-> 700, fare |-> Undefined, pathType |-> Undefined,
     legs |-> <<RideLeg("SUBWAY"), WalkLeg(71)>>]
\* 25 min from or to a station by subway and bus: walk 6 + 3 + 1
ItinLong ==
    [totalTime |-> 1500, fare |-> 1400, pathType |-> 3,
     legs |-> <<RideLeg("SUBWAY"), RideLeg("BUS"), WalkLeg(420)>>]

\* the itinerary lists the provider returns for origin -> destination ...
DirectItineraryLists ==
    SeqsUpTo({ItinSubway, ItinBus}, MaxItins)
    \cup {<<ItinNoTime>>, <<ItinSubway, ItinNoTime>>}
\* ... and for a leg that starts or ends at a station
StationItineraryLists ==
    {<<>>, <<ItinShort>>, <<ItinLong>>, <<ItinShort, ItinLong>>}

\* what a fetch of the transit provider can end in
TmapOutcomes(lists) ==
    {[kind |-> k, hasItineraries |-> FALSE, itineraries |-> <<>>] :
        k \in {"transportError", "badStatus", "badJson", "ok"}}
    \cup {[kind |-> "ok", hasItineraries |-> TRUE, itineraries |-> l] :
        l \in lists}

TmapNull == [isNull |-> TRUE, hasItineraries |-> FALSE, itineraries |-> <<>>]

\* searchTmapRoute: null unless the fetch succeeds, is ok and its body parses
searchTmapRoute(outcome) ==
    IF outcome.kind = "ok"
    THEN [isNull |-> FALSE, hasItineraries |-> outcome.hasItineraries,
          itineraries |-> outcome.itineraries]
    ELSE TmapNull

(***************************************************************************)
(* Driving directions (KakaoDirectionsResponse.routes[0].summary).         *)
(* duration in seconds, distance in metres, taxi and toll are fare.taxi    *)
(* and fare.toll.                                                          *)
(***************************************************************************)
NoSummary ==
    [hasSummary |-> FALSE, duration |-> Undefined, distance |-> Undefined,
     taxi |-> Undefined, toll |-> Undefined]
Summary(duration, distance, taxi, toll) ==
    [hasSummary |-> TRUE, duration |-> duration, distance |-> distance,
     taxi |-> taxi, toll |-> toll]

\* origin -> destination by car
DirectSummaries ==
    {Summary(2650, 8000, 12500, 1000), Summary(900, 8000, Undefined, Undefined),
     Summary(Undefined, Undefined, Undefined, Undefined)}
\* origin -> station or station -> destination by car
StationSummaries ==
    {Summary(410, 2600, 1500, Undefined), Summary(Undefined, 2600, 5000, 0)}

\* what a fetch of the directions provider can end in: the adapter does not
\* look at the status, so an error status with a JSON body is a body
\* without routes
KakaoOutcomes(summaries) ==
    {[kind |-> k, summary |-> NoSummary] :
        k \in {"transportError", "badStatus", "badJson", "ok"}}
    \cup {[kind |-> "ok", summary |-> s] : s \in summaries}

\* getKakaoDirectionsPrecise, read through ?.routes?.[0]?.summary
getKakaoDirectionsPrecise(outcome) ==
    IF outcome.kind \in {"transportError", "badJson"}
    THEN NoSummary
    ELSE outcome.summary

(***************************************************************************)
(* Stations and the batch ETA.                                             *)
(***************************************************************************)
Station(i) == [stationID |-> i, stationName |-> <<"station", i>>]
StationList(n) == [i \in 1..n |-> Station(i)]

\* what a fetch of the POI provider can end in
StationOutcomes(n) ==
    {[kind |-> k, stations |-> <<>>] :
        k \in {"transportError", "badStatus", "badJson"}}
    \cup {[kind |-> "ok", stations |-> StationList(n)]}

\* the outcomes of the two searches of one request
StationOutcomePairs ==
    UNION {StationOutcomes(c[1]) \X StationOutcomes(c[2]) :
        c \in {d \in (0..MaxStations) \X (0..MaxStations) :
                  d[1] + d[2] <= MaxStations}}

\* searchNearbyStations: the stations of the body, [] on any failure
searchNearbyStations(outcome) ==
    IF outcome.kind = "ok" THEN outcome.stations ELSE <<>>

\* durations (seconds) of a batch ETA entry; Undefined: no summary
EtaDurations == {Undefined, 240, 420, 660}

\* what a fetch of the batch ETA provider can end in, for n stations: the
\* routes of an ok body are aligned with the stations asked for
BatchOutcomes(n) ==
    {[kind |-> k, hasRoutes |-> FALSE, routes |-> <<>>] :
        k \in {"transportError", "badStatus", "badJson", "ok"}}
    \cup {[kind |-> "ok", hasRoutes |-> TRUE, routes |-> r] :
        r \in [1..n -> EtaDurations]}

BatchNull == [isNull |-> TRUE, hasRoutes |-> FALSE, routes |-> <<>>]

\* batchTaxiEtaToDestinations / batchTaxiEtaFromOrigins: null when the fetch
\* or the parse throws, the parsed body otherwise
batchTaxiEta(outcome) ==
    IF outcome.kind \in {"transportError", "badJson"}
    THEN BatchNull
    ELSE [isNull |-> FALSE, hasRoutes |-> outcome.hasRoutes,
          routes |-> outcome.routes]

\* mutant: the upper end of the window is exclusive
RECURSIVE ScreenFromExclusive(_, _, _, _)
ScreenFromExclusive(stations, etaResults, window, i) ==
    IF ~(i <= Len(stations) /\ i <= Len(etaResults))
    THEN <<>>
    ELSE LET eta == etaResults[i]
             inWindow == JsOr(eta, 0) # 0
                         /\ eta >= window[1] * 60 /\ eta < window[2] * 60
         IN  (IF inWindow THEN <<stations[i]>> ELSE <<>>)
             \o ScreenFromExclusive(stations, etaResults, window, i + 1)
\* the loop of screenStationsByEta from position i on
RECURSIVE ScreenFrom(_, _, _, _)
ScreenFrom(stations, etaResults, window, i) ==
    IF ~(i <= Len(stations) /\ i <= Len(etaResults))
    THEN <<>>
    ELSE LET eta == etaResults[i]
             \* eta.summary.duration / 60 within the window, in seconds
             inWindow == JsOr(eta, 0) # 0
                         /\ eta >= window[1] * 60 /\ eta <= window[2] * 60
         IN  (IF inWindow THEN <<stations[i]>> ELSE <<>>)
             \o ScreenFrom(stations, etaResults, window, i + 1)

screenStationsByEta(stations, etaResults, window) ==
    ScreenFrom(stations, etaResults, window, 1)

\* mutant: the expanded window is applied whatever the primary one kept
TopStationsAlwaysExpand(stations, batchEta) ==
    Slice(IF batchEta.hasRoutes
          THEN screenStationsByEta(stations, batchEta.routes,
                                   TAXI_ROI_WINDOW_EXPAND)
          ELSE stations,
          MAX_STATION_CANDIDATES)
\* mutant: every screened station is attempted
TopStationsUncapped(stations, batchEta) ==
    IF batchEta.hasRoutes
    THEN LET primary == screenStationsByEta(stations, batchEta.routes,
                                            TAXI_ROI_WINDOW_PRIMARY)
         IN  IF Len(primary) < MIN_SCREENED_STATIONS
             THEN screenStationsByEta(stations, batchEta.routes,
                                      TAXI_ROI_WINDOW_EXPAND)
             ELSE primary
    ELSE stations
\* the stations a side attempts: screened when the batch answer has routes
TopStations(stations, batchEta) ==
    LET primary == screenStationsByEta(stations, batchEta.routes,
                                       TAXI_ROI_WINDOW_PRIMARY)
        screened ==
            IF batchEta.hasRoutes
            THEN IF Len(primary) < MIN_SCREENED_STATIONS
                 THEN screenStationsByEta(stations, batchEta.routes,
                                          TAXI_ROI_WINDOW_EXPAND)
                 ELSE primary
            ELSE stations
    IN  Slice(screened, MAX_STATION_CANDIDATES)

(***************************************************************************)
(* Candidates.  A leg is [type, from, to, durationMin, costKrw, details,   *)
(* arrivalTime]; the transit details leave out the step list, which only   *)
(* the result page reads.  An id is the tuple of the parts the code joins  *)
(* with "-".                                                               *)
(***************************************************************************)
Leg(type, from, to, durationMin, costKrw, details) ==
    [type |-> type, from |-> from, to |-> to, durationMin |-> durationMin,
     costKrw |-> costKrw, details |-> details, arrivalTime |-> Undefined]

Candidate(id, type, totalTimeMin, totalCostKrw, walkTimeMin, hasTaxi, legs, slackMin, isFeasible) ==
    [id |-> id, type |-> type, totalTimeMin |-> totalTimeMin,
     totalCostKrw |-> totalCostKrw, walkTimeMin |-> walkTimeMin,
     hasTaxi |-> hasTaxi, legs |-> legs, slackMin |-> slackMin,
     isFeasible |-> isFeasible, departureTime |-> Undefined,
     arrivalTime |-> Undefined]

\* mutant: the slack is clamped at 0
SlackMinClamped(maxTimeMin, totalTimeMin) ==
    IF JsLe(totalTimeMin, maxTimeMin) THEN JsSub(maxTimeMin, totalTimeMin)
    ELSE IF IsNum(totalTimeMin) THEN 0 ELSE NaN
\* slackMin: maxTimeMin - totalTimeMin
SlackMin(maxTimeMin, totalTimeMin) == JsSub(maxTimeMin, totalTimeMin)

\* mutant: the walk time is rounded down
WalkOnlyCandidateFloor(body) ==
    LET walkMin == body.distanceM \div WALK_SPEED_M_PER_MIN
        isFeasible == JsLe(walkMin, body.maxWalkMin)
                      /\ JsLe(walkMin, body.maxTimeMin)
    IN  Candidate(<<"walk-only">>, "walk-only", walkMin, 0, walkMin, FALSE,
                  <<Leg("walk", OriginName, DestinationName, walkMin, 0,
                        [distance |-> body.distanceM])>>,
                  SlackMin(body.maxTimeMin, walkMin), isFeasible)
\* the walk-only candidate of the short-walk branch
WalkOnlyCandidate(body) ==
    LET walkMin == MathCeilDiv(body.distanceM, WALK_SPEED_M_PER_MIN)
        isFeasible == JsLe(walkMin, body.maxWalkMin)
                      /\ JsLe(walkMin, body.maxTimeMin)
    IN  Candidate(<<"walk-only">>, "walk-only", walkMin, 0, walkMin, FALSE,
                  <<Leg("walk", OriginName, DestinationName, walkMin, 0,
                        [distance |-> body.distanceM])>>,
                  SlackMin(body.maxTimeMin, walkMin), isFeasible)

\* the sums the three itinerary loops compute over itinerary.legs
RECURSIVE TotalWalkM(_)
TotalWalkM(legs) ==
    IF legs = <<>> THEN 0
    ELSE (IF Head(legs).mode = "WALK" THEN JsOr(Head(legs).distance, 0) ELSE 0)
         + TotalWalkM(Tail(legs))
RECURSIVE CountMode(_, _)
CountMode(legs, mode) ==
    IF legs = <<>> THEN 0
    ELSE (IF Head(legs).mode = mode THEN 1 ELSE 0) + CountMode(Tail(legs), mode)

TransitTimeMin(itinerary) == MathCeilDiv(itinerary.totalTime, 60)
TransitCost(itinerary) == JsOr(itinerary.fare, 0)
TransitWalkTimeMin(itinerary) ==
    estimateWalkTimeMin(TotalWalkM(itinerary.legs),
                        CountMode(itinerary.legs, "SUBWAY"),
                        CountMode(itinerary.legs, "BUS"))
TransitDetails(itinerary) ==
    [totalWalkM |-> TotalWalkM(itinerary.legs),
     busCount |-> CountMode(itinerary.legs, "BUS"),
     subwayCount |-> CountMode(itinerary.legs, "SUBWAY")]

\* mutant: the walk budget is left out of the test
TransitFeasibleTimeOnly(totalTimeMin, walkTimeMin, body) ==
    JsLe(totalTimeMin, body.maxTimeMin)
\* isFeasible of a transit-only candidate
TransitFeasible(totalTimeMin, walkTimeMin, body) ==
    JsLe(totalTimeMin, body.maxTimeMin) /\ JsLe(walkTimeMin, body.maxWalkMin)

\* the transit-only candidate of one itinerary; n is allCandidates.length
TransitOnlyCandidate(itinerary, n, body) ==
    LET totalTimeMin == TransitTimeMin(itinerary)
        totalCostKrw == TransitCost(itinerary)
        walkTimeMin == TransitWalkTimeMin(itinerary)
    IN  Candidate(<<"transit", JsOr(itinerary.pathType, n)>>, "transit-only",
                  totalTimeMin, totalCostKrw, walkTimeMin, FALSE,
                  <<Leg("transit", OriginName, DestinationName, totalTimeMin,
                        totalCostKrw,
                        TransitDetails(itinerary)
                            @@ [pathType |-> itinerary.pathType])>>,
                  SlackMin(body.maxTimeMin, totalTimeMin),
                  TransitFeasible(totalTimeMin, walkTimeMin, body))

\* allCandidates after the transit-only loop over itineraries.slice(0, 5)
RECURSIVE PushTransitOnly(_, _, _)
PushTransitOnly(cands, itineraries, body) ==
    IF itineraries = <<>> THEN cands
    ELSE PushTransitOnly(
             Append(cands, TransitOnlyCandidate(Head(itineraries), Len(cands), body)),
             Tail(itineraries), body)

TransitOnlyCandidates(cands, tmapData, body) ==
    IF tmapData.hasItineraries /\ Len(tmapData.itineraries) > 0
    THEN PushTransitOnly(cands,
                         Slice(tmapData.itineraries, TRANSIT_ONLY_ITINERARIES),
                         body)
    ELSE cands

\* mutant: the seconds are rounded down to minutes
TaxiDurationMinFloor(summary) ==
    IF IsNum(summary.duration)
    THEN (summary.duration \div 60) + TAXI_PICKUP_BUFFER_MIN
    ELSE NaN
\* the figures of a taxi ride
TaxiDurationMin(summary) ==
    JsAdd(MathCeilDiv(summary.duration, 60), TAXI_PICKUP_BUFFER_MIN)
TaxiFare(summary) ==
    JsOr(summary.taxi, JsAdd(TAXI_BASE_FARE, summary.distance))
TollFare(summary) == JsOr(summary.toll, 0)
TaxiCost(summary) == JsAdd(TaxiFare(summary), TollFare(summary))

\* isFeasible of the taxi-only candidate
TaxiFeasible(durationMin, body) == JsLe(durationMin, body.maxTimeMin)

TaxiOnlyCandidate(summary, body) ==
    LET durationMin == TaxiDurationMin(summary)
        totalCost == TaxiCost(summary)
    IN  Candidate(<<"taxi-only">>, "taxi-only", durationMin, totalCost, 0, TRUE,
                  <<Leg("taxi", OriginName, DestinationName, durationMin,
                        totalCost,
                        [distance |-> summary.distance,
                         duration |-> summary.duration,
                         taxiFare |-> TaxiFare(summary),
                         tollFare |-> TollFare(summary)])>>,
                  SlackMin(body.maxTimeMin, durationMin),
                  TaxiFeasible(durationMin, body))

TaxiOnlyCandidates(cands, summary, body) ==
    IF summary.hasSummary
       /\ summary.duration # Undefined /\ summary.distance # Undefined
    THEN Append(cands, TaxiOnlyCandidate(summary, body))
    ELSE cands

(***************************************************************************)
(* Mixed candidates: one taxi ride to or from a station and one itinerary. *)
(***************************************************************************)
MixedWalkTimeMin(itinerary) ==
    TransitWalkTimeMin(itinerary) + DROPOFF_TO_PLATFORM_BUFFER_MIN
\* mutant: the total is taken from the ride without its pickup buffer
MixedTotalTimeNoBuffer(taxiDurationMin, transitTimeMin) ==
    JsAdd(JsSub(taxiDurationMin, TAXI_PICKUP_BUFFER_MIN), transitTimeMin)
MixedTotalTime(taxiDurationMin, transitTimeMin) ==
    JsAdd(taxiDurationMin, transitTimeMin)
MixedTotalCost(taxiCost, transitCost) == JsAdd(taxiCost, transitCost)
\* mutant: a mixed candidate is kept on the time budget alone
MixedKeptTimeOnly(totalTime, walkTimeMin, body) ==
    JsLe(totalTime, body.maxTimeMin)
\* the test that keeps a mixed candidate
MixedKept(totalTime, walkTimeMin, body) ==
    JsLe(totalTime, body.maxTimeMin) /\ JsLe(walkTimeMin, body.maxWalkMin)

TaxiTransitLegs(station, summary, itinerary) ==
    <<Leg("taxi", OriginName, station.stationName, TaxiDurationMin(summary),
          TaxiCost(summary),
          [taxiFare |-> TaxiFare(summary), tollFare |-> TollFare(summary)]),
      Leg("transit", station.stationName, DestinationName,
          TransitTimeMin(itinerary), TransitCost(itinerary),
          TransitDetails(itinerary))>>

\* mutant: the legs are listed in the order of the taxi-transit variant
TransitTaxiLegsTaxiFirst(station, summary, itinerary) ==
    <<Leg("taxi", station.stationName, DestinationName,
          TaxiDurationMin(summary), TaxiCost(summary),
          [taxiFare |-> TaxiFare(summary), tollFare |-> TollFare(summary)]),
      Leg("transit", OriginName, station.stationName,
          TransitTimeMin(itinerary), TransitCost(itinerary),
          TransitDetails(itinerary))>>
\* mutant: the taxi leg copied from the taxi-transit variant keeps its ends
TransitTaxiLegsCopied(station, summary, itinerary) ==
    <<Leg("transit", OriginName, station.stationName,
          TransitTimeMin(itinerary), TransitCost(itinerary),
          TransitDetails(itinerary)),
      Leg("taxi", OriginName, station.stationName,
          TaxiDurationMin(summary), TaxiCost(summary),
          [taxiFare |-> TaxiFare(summary), tollFare |-> TollFare(summary)])>>
TransitTaxiLegs(station, summary, itinerary) ==
    <<Leg("transit", OriginName, station.stationName,
          TransitTimeMin(itinerary), TransitCost(itinerary),
          TransitDetails(itinerary)),
      Leg("taxi", station.stationName, DestinationName,
          TaxiDurationMin(summary), TaxiCost(summary),
          [taxiFare |-> TaxiFare(summary), tollFare |-> TollFare(summary)])>>

TaxiTransitCandidate(station, summary, itinerary, body) ==
    LET totalTime == MixedTotalTime(TaxiDurationMin(summary),
                                    TransitTimeMin(itinerary))
    IN  Candidate(<<"taxi-transit", station.stationID, itinerary.pathType>>,
                  "taxi-transit", totalTime,
                  MixedTotalCost(TaxiCost(summary), TransitCost(itinerary)),
                  MixedWalkTimeMin(itinerary), TRUE,
                  TaxiTransitLegs(station, summary, itinerary),
                  SlackMin(body.maxTimeMin, totalTime), TRUE)

TransitTaxiCandidate(station, summary, itinerary, body) ==
    LET totalTime == MixedTotalTime(TransitTimeMin(itinerary),
                                    TaxiDurationMin(summary))
    IN  Candidate(<<"transit-taxi", station.stationID, itinerary.pathType>>,
                  "transit-taxi", totalTime,
                  MixedTotalCost(TransitCost(itinerary), TaxiCost(summary)),
                  MixedWalkTimeMin(itinerary), TRUE,
                  TransitTaxiLegs(station, summary, itinerary),
                  SlackMin(body.maxTimeMin, totalTime), TRUE)

\* the candidates one station adds: the loop over itineraries.slice(0, 3)
RECURSIVE PushMixed(_, _, _, _, _, _)
PushMixed(cands, side, station, summary, itineraries, body) ==
    IF itineraries = <<>> THEN cands
    ELSE LET it == Head(itineraries)
             c == IF side = "origin"
                  THEN TaxiTransitCandidate(station, summary, it, body)
                  ELSE TransitTaxiCandidate(station, summary, it, body)
         IN  PushMixed(
                 IF MixedKept(c.totalTimeMin, c.walkTimeMin, body)
                 THEN Append(cands, c) ELSE cands,
                 side, station, summary, Tail(itineraries), body)

MixedCandidates(cands, side, station, summary, tmapData, body) ==
    IF tmapData.hasItineraries /\ Len(tmapData.itineraries) > 0
    THEN PushMixed(cands, side, station, summary,
                   Slice(tmapData.itineraries, MIXED_ITINERARIES), body)
    ELSE cands

(***************************************************************************)
(* Selection and the response.  Times are milliseconds since the epoch.    *)
(***************************************************************************)
RECURSIVE SumDurationMin(_, _)
SumDurationMin(legs, n) ==
    IF n = 0 THEN 0 ELSE JsAdd(SumDurationMin(legs, n - 1), legs[n].durationMin)

\* addArrivalTimes: each leg's arrival is the departure plus the durations
\* so far
addArrivalTimes(candidate, departureTime) ==
    LET legs == [i \in 1..Len(candidate.legs) |->
                   [candidate.legs[i] EXCEPT !.arrivalTime =
                       JsAdd(departureTime,
                             SumDurationMin(candidate.legs, i) * 60000)]]
    IN  [candidate EXCEPT !.departureTime = departureTime,
                          !.legs = legs,
                          !.arrivalTime = legs[Len(legs)].arrivalTime]

\* toISOString throws a RangeError on an invalid date
ArrivalTimesThrow(candidate) ==
    \E i \in 1..Len(candidate.legs) : ~IsNum(candidate.legs[i].durationMin)

\* the comparator of the feasible sort: cost, then time
CompareFeasible(a, b) ==
    IF a.totalCostKrw # b.totalCostKrw
    THEN a.totalCostKrw - b.totalCostKrw
    ELSE a.totalTimeMin - b.totalTimeMin
\* the comparator of the fallback sort: time
CompareFallback(a, b) == a.totalTimeMin - b.totalTimeMin

\* the comparator a sort is called with
Compare(order, a, b) ==
    IF order = "feasible" THEN CompareFeasible(a, b) ELSE CompareFallback(a, b)

\* mutant: x goes before the elements it is equal to
RECURSIVE InsertByBeforeEqual(_, _, _)
InsertByBeforeEqual(sorted, x, order) ==
    IF sorted = <<>> THEN <<x>>
    ELSE IF Compare(order, x, Head(sorted)) <= 0 THEN <<x>> \o sorted
    ELSE <<Head(sorted)>> \o InsertByBeforeEqual(Tail(sorted), x, order)
\* Array.prototype.sort is stable: x goes before the first element it is
\* strictly smaller than
RECURSIVE InsertBy(_, _, _)
InsertBy(sorted, x, order) ==
    IF sorted = <<>> THEN <<x>>
    ELSE IF Compare(order, x, Head(sorted)) < 0 THEN <<x>> \o sorted
    ELSE <<Head(sorted)>> \o InsertBy(Tail(sorted), x, order)
RECURSIVE SortBy(_, _)
SortBy(s, order) ==
    IF s = <<>> THEN <<>>
    ELSE InsertBy(SortBy(SubSeq(s, 1, Len(s) - 1), order), s[Len(s)], order)

\* mutant: the hasTaxi filter is left out
SelectedFeasible(c, requireTaxi) == c.isFeasible
\* the filter of buildResponse
Selected(c, requireTaxi) == c.isFeasible /\ (requireTaxi => c.hasTaxi)

NoResponse ==
    [status |-> 0, success |-> FALSE, error |-> "", routes |-> <<>>,
     count |-> 0, noFeasibleRoute |-> FALSE, minPossibleTimeMin |-> JsNull,
     minPossibleWalkMin |-> JsNull]

\* mutant: count is the number of routes returned
FeasibleResponseCountsRoutes(sortedFeasible) ==
    [NoResponse EXCEPT !.status = 200, !.success = TRUE,
        !.routes = Slice(sortedFeasible, MAX_FEASIBLE_ROUTES),
        !.count = Len(Slice(sortedFeasible, MAX_FEASIBLE_ROUTES))]
FeasibleResponse(sortedFeasible) ==
    [NoResponse EXCEPT !.status = 200, !.success = TRUE,
        !.routes = Slice(sortedFeasible, MAX_FEASIBLE_ROUTES),
        !.count = Len(sortedFeasible)]

FallbackResponse(allSorted) ==
    [NoResponse EXCEPT !.status = 200, !.success = TRUE,
        !.routes = Slice(allSorted, MAX_FALLBACK_ROUTES),
        !.count = Len(allSorted),
        !.noFeasibleRoute = TRUE,
        !.minPossibleTimeMin =
            IF allSorted = <<>> THEN JsNull ELSE allSorted[1].totalTimeMin,
        !.minPossibleWalkMin =
            IF allSorted = <<>> THEN JsNull ELSE allSorted[1].walkTimeMin]

ErrorResponse(status, message) ==
    [NoResponse EXCEPT !.status = status, !.error = message]

\* buildResponse, for candidates whose arrival times can be written
buildResponse(cands, requireTaxi, departureTime) ==
    LET timed == [i \in 1..Len(cands) |-> addArrivalTimes(cands[i], departureTime)]
        Test(c) == Selected(c, requireTaxi)
        sortedFeasible == SortBy(SelectSeq(timed, Test), "feasible")
    IN  IF Len(sortedFeasible) > 0
        THEN FeasibleResponse(sortedFeasible)
        ELSE FallbackResponse(SortBy(timed, "fallback"))

\* allCandidates as buildResponse leaves it: arrival times written into the
\* candidates, and sorted in place by the fallback
BuiltCandidates(cands, requireTaxi, departureTime) ==
    LET timed == [i \in 1..Len(cands) |-> addArrivalTimes(cands[i], departureTime)]
        Test(c) == Selected(c, requireTaxi)
    IN  IF Len(SelectSeq(timed, Test)) > 0
        THEN timed
        ELSE SortBy(timed, "fallback")

\* addArrivalTimes throws for one of the candidates
BuildThrows(cands) == \E i \in 1..Len(cands) : ArrivalTimesThrow(cands[i])

\* what the handler answers once findOptimalRoute has its candidates: the
\* response of buildResponse, or the 500 of its catch block
Respond(cands, body) ==
    IF BuildThrows(cands)
    THEN ErrorResponse(500, "Invalid time value")
    ELSE buildResponse(cands, body.requireTaxi, DepartureMs)

(***************************************************************************)
(* The state of one request.                                               *)
(***************************************************************************)
VARIABLES
    pc,             \* where the handler is: the call it awaits, or "done"
    body,           \* the request body
    allCandidates,  \* findOptimalRoute's allCandidates
    stationsNearO,  \* stations found near the origin
    stationsNearD,  \* stations found near the destination
    topStations,    \* the station list of the loop that is running
    idx,            \* position of that loop in topStations
    pending,        \* the first provider answer of the station being tried
    response,       \* the HTTP response, once sent
    call            \* a helper called on its own: its arguments and result

\* The state of the page: App's useState values, the form's selected places,
\* its submitAbortRef, and the handleSubmit calls that reached fetch.
VARIABLES
    loading,        \* App: useState(false)
    routeResponse,  \* App: the request whose routes are shown, or null
    error,          \* App: the message shown, or null
    origin,         \* RouteSearchForm: an origin is selected
    destination,    \* RouteSearchForm: a destination is selected
    submitAbortRef, \* RouteSearchForm: the controller of the last request, or null
    requests        \* the handleSubmit calls that created a controller

formVars == <<loading, routeResponse, error, origin, destination,
              submitAbortRef, requests>>
requestVars == <<pc, body, allCandidates, stationsNearO, stationsNearD,
                 topStations, idx, pending, response, call>>
vars == <<pc, body, allCandidates, stationsNearO, stationsNearD, topStations,
          idx, pending, response, call, formVars>>

\* the page as it is mounted
FormIdle ==
    /\ loading = FALSE
    /\ routeResponse = JsNull
    /\ error = JsNull
    /\ origin = FALSE
    /\ destination = FALSE
    /\ submitAbortRef = JsNull
    /\ requests = <<>>

\* no helper is called on its own while a request is handled
NoCall == [fn |-> "none"]

NoPending == [summary |-> NoSummary, tmapData |-> TmapNull]

Init ==
    /\ pc = "received"
    /\ body \in Bodies
    /\ allCandidates = <<>>
    /\ stationsNearO = <<>>
    /\ stationsNearD = <<>>
    /\ topStations = <<>>
    /\ idx = 0
    /\ pending = NoPending
    /\ response = NoResponse
    /\ call = NoCall
    /\ FormIdle

\* !body.origin || !body.destination || !body.maxTimeMin || !body.maxWalkMin
MissingFields(b) ==
    \/ ~b.hasOrigin
    \/ ~b.hasDestination
    \/ JsOr(b.maxTimeMin, 0) = 0
    \/ JsOr(b.maxWalkMin, 0) = 0

\* mutant: only the value 1 stands for "one taxi segment"
TaxiMaxSegmentsOnlyOne(b) ==
    IF b.taxiMaxSegments \in {Undefined, 1} THEN 1 ELSE 0
\* taxiMaxSegments = 1 when the body leaves it out
TaxiMaxSegments(b) ==
    IF b.taxiMaxSegments = Undefined THEN 1 ELSE b.taxiMaxSegments

\* findOptimalRoute returns: the response is built and sent
Finish(cands) ==
    /\ pc' = "done"
    /\ response' = Respond(cands, body)
    /\ allCandidates' = IF BuildThrows(cands) THEN cands
                        ELSE BuiltCandidates(cands, body.requireTaxi, DepartureMs)
    /\ topStations' = <<>>
    /\ idx' = 0
    /\ pending' = NoPending

\* mutant: the request is answered when the origin side is over
AfterOriginSideAnswers(cands) == Finish(cands)
\* the destination side starts, or there is nothing left to do
AfterOriginSide(cands) ==
    IF Len(stationsNearD) > 0
    THEN /\ pc' = "batchEtaD"
         /\ allCandidates' = cands
         /\ topStations' = <<>>
         /\ idx' = 0
         /\ pending' = NoPending
         /\ UNCHANGED response
    ELSE Finish(cands)

\* mutant: a station that added nothing ends the loop (break for continue)
NextStationBreak(cands, side) ==
    IF idx < Len(topStations) /\ Len(cands) > Len(allCandidates)
    THEN /\ pc' = (IF side = "origin" THEN "taxiLegO" ELSE "transitD")
         /\ allCandidates' = cands
         /\ idx' = idx + 1
         /\ pending' = NoPending
         /\ UNCHANGED <<topStations, response>>
    ELSE IF side = "origin" THEN AfterOriginSide(cands) ELSE Finish(cands)
\* the loop over topStations moves to its next station, or ends
NextStation(cands, side) ==
    IF idx < Len(topStations)
    THEN /\ pc' = (IF side = "origin" THEN "taxiLegO" ELSE "transitD")
         /\ allCandidates' = cands
         /\ idx' = idx + 1
         /\ pending' = NoPending
         /\ UNCHANGED <<topStations, response>>
    ELSE IF side = "origin" THEN AfterOriginSide(cands) ELSE Finish(cands)

(***************************************************************************)
(* The handler.                                                            *)
(***************************************************************************)
Reject ==
    /\ pc = "received"
    /\ MissingFields(body)
    /\ pc' = "done"
    /\ response' = ErrorResponse(400, "Missing required fields")
    /\ UNCHANGED <<formVars, call, body, allCandidates, stationsNearO, stationsNearD,
                   topStations, idx, pending>>

\* distanceM < 700: one walk-only candidate, no provider is called
ShortWalk ==
    /\ pc = "received"
    /\ ~MissingFields(body)
    /\ body.distanceM < SHORT_WALK_LIMIT_M
    /\ Finish(<<WalkOnlyCandidate(body)>>)
    /\ UNCHANGED <<formVars, call, body, stationsNearO, stationsNearD>>

StartSearch ==
    /\ pc = "received"
    /\ ~MissingFields(body)
    /\ ~(body.distanceM < SHORT_WALK_LIMIT_M)
    /\ pc' = "transit"
    /\ UNCHANGED <<formVars, call, body, allCandidates, stationsNearO, stationsNearD,
                   topStations, idx, pending, response>>

\* searchTmapRoute(origin, destination) answers
TransitOnly ==
    /\ pc = "transit"
    /\ \E outcome \in TmapOutcomes(DirectItineraryLists) :
          allCandidates' = TransitOnlyCandidates(allCandidates,
                                                 searchTmapRoute(outcome), body)
    /\ pc' = "taxi"
    /\ UNCHANGED <<formVars, call, body, stationsNearO, stationsNearD, topStations, idx,
                   pending, response>>

\* getKakaoDirectionsPrecise(origin, destination) answers
TaxiOnly ==
    /\ pc = "taxi"
    /\ \E outcome \in KakaoOutcomes(DirectSummaries) :
          LET cands == TaxiOnlyCandidates(allCandidates,
                                          getKakaoDirectionsPrecise(outcome), body)
          IN  IF TaxiMaxSegments(body) >= 1
              THEN /\ pc' = "stations"
                   /\ allCandidates' = cands
                   /\ UNCHANGED <<topStations, idx, pending, response>>
              ELSE Finish(cands)
    /\ UNCHANGED <<formVars, call, body, stationsNearO, stationsNearD>>

\* the two searchNearbyStations calls of Promise.all answer
NearbyStations ==
    /\ pc = "stations"
    /\ \E pair \in StationOutcomePairs :
          LET nearO == searchNearbyStations(pair[1])
              nearD == searchNearbyStations(pair[2])
          IN  /\ stationsNearO' = nearO
              /\ stationsNearD' = nearD
              /\ IF Len(nearO) > 0
                 THEN /\ pc' = "batchEtaO"
                      /\ UNCHANGED <<allCandidates, topStations, idx, pending,
                                     response>>
                 ELSE IF Len(nearD) > 0
                 THEN /\ pc' = "batchEtaD"
                      /\ UNCHANGED <<allCandidates, topStations, idx, pending,
                                     response>>
                 ELSE Finish(allCandidates)
    /\ UNCHANGED <<formVars, call, body>>

\* batchTaxiEtaToDestinations answers: the origin side's stations are
\* screened and capped
BatchEtaO ==
    /\ pc = "batchEtaO"
    /\ \E outcome \in BatchOutcomes(Len(stationsNearO)) :
          LET top == TopStations(stationsNearO, batchTaxiEta(outcome))
          IN  IF Len(top) > 0
              THEN /\ pc' = "taxiLegO"
                   /\ topStations' = top
                   /\ idx' = 1
                   /\ UNCHANGED <<allCandidates, pending, response>>
              ELSE AfterOriginSide(allCandidates)
    /\ UNCHANGED <<formVars, call, body, stationsNearO, stationsNearD>>

\* getKakaoDirectionsPrecise(origin, station) answers
TaxiLegO ==
    /\ pc = "taxiLegO"
    /\ \E outcome \in KakaoOutcomes(StationSummaries) :
          LET taxiLeg == getKakaoDirectionsPrecise(outcome)
          IN  IF ~taxiLeg.hasSummary
              THEN NextStation(allCandidates, "origin")
              ELSE /\ pc' = "transitO"
                   /\ pending' = [NoPending EXCEPT !.summary = taxiLeg]
                   /\ UNCHANGED <<allCandidates, topStations, idx, response>>
    /\ UNCHANGED <<formVars, call, body, stationsNearO, stationsNearD>>

\* searchTmapRoute(station, destination) answers
TransitO ==
    /\ pc = "transitO"
    /\ \E outcome \in TmapOutcomes(StationItineraryLists) :
          NextStation(MixedCandidates(allCandidates, "origin", topStations[idx],
                                      pending.summary, searchTmapRoute(outcome),
                                      body),
                      "origin")
    /\ UNCHANGED <<formVars, call, body, stationsNearO, stationsNearD>>

\* batchTaxiEtaFromOrigins answers: the destination side's stations are
\* screened and capped
BatchEtaD ==
    /\ pc = "batchEtaD"
    /\ \E outcome \in BatchOutcomes(Len(stationsNearD)) :
          LET top == TopStations(stationsNearD, batchTaxiEta(outcome))
          IN  IF Len(top) > 0
              THEN /\ pc' = "transitD"
                   /\ topStations' = top
                   /\ idx' = 1
                   /\ UNCHANGED <<allCandidates, pending, response>>
              ELSE Finish(allCandidates)
    /\ UNCHANGED <<formVars, call, body, stationsNearO, stationsNearD>>

\* searchTmapRoute(origin, station) answers
TransitD ==
    /\ pc = "transitD"
    /\ \E outcome \in TmapOutcomes(StationItineraryLists) :
          LET transitPaths == searchTmapRoute(outcome)
          IN  IF ~transitPaths.hasItineraries \/ Len(transitPaths.itineraries) = 0
              THEN NextStation(allCandidates, "destination")
              ELSE /\ pc' = "taxiLegD"
                   /\ pending' = [NoPending EXCEPT !.tmapData = transitPaths]
                   /\ UNCHANGED <<allCandidates, topStations, idx, response>>
    /\ UNCHANGED <<formVars, call, body, stationsNearO, stationsNearD>>

\* getKakaoDirectionsPrecise(station, destination) answers
TaxiLegD ==
    /\ pc = "taxiLegD"
    /\ \E outcome \in KakaoOutcomes(StationSummaries) :
          LET taxiLeg == getKakaoDirectionsPrecise(outcome)
          IN  IF ~taxiLeg.hasSummary
              THEN NextStation(allCandidates, "destination")
              ELSE NextStation(
                       MixedCandidates(allCandidates, "destination",
                                       topStations[idx], taxiLeg,
                                       pending.tmapData, body),
                       "destination")
    /\ UNCHANGED <<formVars, call, body, stationsNearO, stationsNearD>>

Next ==
    \/ Reject
    \/ ShortWalk
    \/ StartSearch
    \/ TransitOnly
    \/ TaxiOnly
    \/ NearbyStations
    \/ BatchEtaO
    \/ TaxiLegO
    \/ TransitO
    \/ BatchEtaD
    \/ TransitD
    \/ TaxiLegD

Spec == Init /\ [][Next]_vars

(***************************************************************************)
(* The helpers on their own.  A helper is applied once to arguments drawn   *)
(* from the sets below, which reach the list lengths and boundary values    *)
(* that one request of Spec does not; FullSpec has both kinds of run.       *)
(***************************************************************************)
\* longest ETA list of a screenStationsByEta call; the station list may be
\* one longer
MaxScreened == 2
\* longest station list screened with both windows, all ETA values mixed
MaxEtaList == 4

\* the request a helper is called under
HelperBody(maxTimeMin, maxWalkMin) ==
    [hasOrigin |-> TRUE, hasDestination |-> TRUE, maxTimeMin |-> maxTimeMin,
     maxWalkMin |-> maxWalkMin, requireTaxi |-> FALSE, taxiMaxSegments |-> 1,
     distanceM |-> 700]

\* ETA durations (seconds) around the ends of the two windows
ScreenDurations == {Undefined, 299, 300, 359, 360, 540, 541, 720, 721}
\* ETAs of 5, 6, 7, 10 and 13 minutes
EtaMinuteDurations == {300, 360, 420, 600, 780}

\* a batch answer with these routes
BatchRoutes(r) == [isNull |-> FALSE, hasRoutes |-> TRUE, routes |-> r]

\* screenStationsByEta(stations, etaResults, window)
ScreenCalls ==
    [fn : {"screenStationsByEta"}, returned : {FALSE}, result : {<<>>},
     body : {HelperBody(40, 15)},
     stations : {StationList(n) : n \in 0..(MaxScreened + 1)},
     etaResults : SeqsUpTo(ScreenDurations, MaxScreened),
     window : {TAXI_ROI_WINDOW_PRIMARY, TAXI_ROI_WINDOW_EXPAND}]

\* the ETA lists of the calls that screen and cap: every short list, one of
\* each of the five ETAs, lists of 6 with up to six ETAs in the primary
\* window, and long lists
TopStationsEtas ==
    SeqsUpTo(EtaMinuteDurations, MaxEtaList)
    \cup {<<300, 360, 420, 600, 780>>}
    \cup [1..(MaxEtaList + 2) -> {420, 600}]
    \cup {[i \in 1..n |-> d] : n \in 14..17, d \in {420, 600}}

\* screening and cap of one side: stations and the batch answer for them
TopStationsCalls ==
    {[fn |-> "TopStations", returned |-> FALSE, result |-> <<>>,
      body |-> HelperBody(40, 15),
      stations |-> StationList(Len(r)), batchEta |-> BatchRoutes(r)] :
        r \in TopStationsEtas}
    \cup {[fn |-> "TopStations", returned |-> FALSE, result |-> <<>>,
           body |-> HelperBody(40, 15),
           stations |-> StationList(n), batchEta |-> b] :
             n \in {2, 15, 16, 17},
             b \in {BatchNull, [BatchNull EXCEPT !.isNull = FALSE]}}

\* longest itinerary list of a call of the transit-only branch
MaxDirectList == 6
\* longest itinerary list of a call of the mixed branch of one station
MaxStationList == 4

\* budgets under which some candidates pass and others do not
HelperBodies ==
    {HelperBody(t, w) : t \in {20, 30, 40}, w \in {0 - 1, 10, 15}}

\* the transit-only branch: the answer of searchTmapRoute and the request
TransitOnlyCalls ==
    {[fn |-> "TransitOnlyCandidates", returned |-> FALSE, result |-> <<>>,
      body |-> b, tmapData |-> searchTmapRoute(o)] :
        b \in HelperBodies,
        o \in TmapOutcomes(SeqsUpTo({ItinSubway, ItinBus}, MaxDirectList))}

\* rides of 0 s, 59 s .. 61 s, with and without fare, toll and distance
RideSummaries ==
    {Summary(d, m, f, t) :
        d \in {Undefined, 0, 59, 60, 61, 1080, 1081},
        m \in {Undefined, 0, 8000},
        f \in {Undefined, 0, 12500},
        t \in {Undefined, 0, 1000}}

\* the taxi-only branch: routes[0].summary of the directions answer
TaxiOnlyCalls ==
    {[fn |-> "TaxiOnlyCandidates", returned |-> FALSE, result |-> <<>>,
      body |-> b, summary |-> s] :
        b \in HelperBodies, s \in RideSummaries \cup {NoSummary}}

\* the itinerary loop of one station, on either side
MixedCalls ==
    {[fn |-> "MixedCandidates", returned |-> FALSE, result |-> <<>>,
      body |-> b, side |-> d, station |-> Station(1), summary |-> s,
      tmapData |-> searchTmapRoute(o)] :
        b \in HelperBodies, d \in {"origin", "destination"},
        s \in StationSummaries
               \cup {Summary(480, 2600, Undefined, 500),
                     Summary(481, Undefined, 0, Undefined)},
        o \in TmapOutcomes(SeqsUpTo({ItinShort, ItinLong}, MaxStationList))}

\* findOptimalRoute as one function of the request and of what the
\* providers answer: answers.legsO[i] and answers.legsD[i] are the precise
\* ETA and the itineraries asked for the i-th station of a side's loop
RECURSIVE StationLoop(_, _, _, _, _, _)
StationLoop(cands, side, stations, legs, i, b) ==
    IF i > Len(stations) THEN cands
    ELSE LET leg == legs[i]
             skipped ==
                 IF side = "origin"
                 THEN ~leg.summary.hasSummary
                 ELSE \/ ~leg.tmapData.hasItineraries
                      \/ Len(leg.tmapData.itineraries) = 0
                      \/ ~leg.summary.hasSummary
         IN  StationLoop(
                 IF skipped THEN cands
                 ELSE MixedCandidates(cands, side, stations[i], leg.summary,
                                      leg.tmapData, b),
                 side, stations, legs, i + 1, b)

\* allCandidates when findOptimalRoute calls buildResponse
GeneratedCandidates(b, answers) ==
    IF b.distanceM < SHORT_WALK_LIMIT_M
    THEN <<WalkOnlyCandidate(b)>>
    ELSE LET transitOnly == TransitOnlyCandidates(<<>>, answers.tmapData, b)
             taxiOnly == TaxiOnlyCandidates(transitOnly, answers.summary, b)
             originSide ==
                 IF Len(answers.stationsNearO) > 0
                 THEN StationLoop(taxiOnly, "origin",
                                  TopStations(answers.stationsNearO,
                                              answers.batchEtaO),
                                  answers.legsO, 1, b)
                 ELSE taxiOnly
             bothSides ==
                 IF Len(answers.stationsNearD) > 0
                 THEN StationLoop(originSide, "destination",
                                  TopStations(answers.stationsNearD,
                                              answers.batchEtaD),
                                  answers.legsD, 1, b)
                 ELSE originSide
         IN  IF TaxiMaxSegments(b) >= 1 THEN bothSides ELSE taxiOnly

findOptimalRoute(b, answers) == Respond(GeneratedCandidates(b, answers), b)

\* taxiMaxSegments left out, 0, 1 and larger
SegmentValues == {Undefined, 0, 1, 2, 3}
\* most stations the two sides of a findOptimalRoute call have together
MaxNear == 1

\* the answers for one station of a loop
StationLegs ==
    [summary : {NoSummary, Summary(410, 2600, 1500, Undefined)},
     tmapData : {TmapNull,
                 [TmapNull EXCEPT !.isNull = FALSE, !.hasItineraries = TRUE,
                                  !.itineraries = <<ItinShort, ItinLong>>]}]

\* what the providers answer in one run of findOptimalRoute
RouteAnswers ==
    UNION {[tmapData : {searchTmapRoute(o) :
                           o \in TmapOutcomes({<<ItinBusTie, ItinSubway>>,
                                               <<ItinSubway, ItinBusTie>>})},
            summary : {getKakaoDirectionsPrecise(o) :
                          o \in KakaoOutcomes({Summary(900, 8000, Undefined,
                                                       Undefined)})},
            stationsNearO : {StationList(n[1])},
            stationsNearD : {StationList(n[2])},
            batchEtaO : {BatchNull, BatchRoutes([i \in 1..n[1] |-> 420])},
            batchEtaD : {BatchRoutes([i \in 1..n[2] |-> 600])},
            legsO : [1..n[1] -> StationLegs],
            legsD : [1..n[2] -> StationLegs]] :
        n \in {d \in (0..MaxNear) \X (0..MaxNear) : d[1] + d[2] <= MaxNear}}

FindOptimalRouteCalls ==
    {[fn |-> "findOptimalRoute", returned |-> FALSE, result |-> NoResponse,
      body |-> [b EXCEPT !.taxiMaxSegments = v],
      answers |-> a] :
        b \in {HelperBody(40, 10), HelperBody(40, 15), HelperBody(20, 15)},
        v \in SegmentValues, a \in RouteAnswers}

\* most legs of one kind in an estimateWalkTimeMin call
MaxTransfers == 2

\* estimateWalkTimeMin(totalWalkM, subwayTransfers, busTransfers)
EstimateCalls ==
    [fn : {"estimateWalkTimeMin"}, returned : {FALSE}, result : {0},
     body : {HelperBody(40, 15)},
     totalWalkM : {0, 1, 69, 70, 71, 1000},
     subwayTransfers : 0..MaxTransfers, busTransfers : 0..MaxTransfers]

\* longest candidate list of a buildResponse call
MaxBuilt == 11

\* candidate lists for buildResponse: n taxi-transit candidates within their
\* budgets, n transit-only candidates over theirs, or two of these followed
\* by taxi-transit ones
BuiltList(kind, n) ==
    [i \in 1..n |->
        IF kind = "infeasible" \/ (kind = "both" /\ i <= 2)
        THEN TransitOnlyCandidate(IF i % 2 = 0 THEN ItinSubway ELSE ItinBus,
                                  i - 1, HelperBody(20, 15))
        ELSE TaxiTransitCandidate(Station(i),
                                  Summary(410, 2600, 1500, Undefined),
                                  IF i % 3 = 0 THEN ItinShort ELSE ItinLong,
                                  HelperBody(40, 15))]

\* buildResponse(allCandidates, ..., requireTaxi, departureTime)
BuildResponseCalls ==
    {[fn |-> "buildResponse", returned |-> FALSE, result |-> NoResponse,
      body |-> [HelperBody(40, 15) EXCEPT !.requireTaxi = r],
      cands |-> BuiltList(k, n)] :
        r \in BOOLEAN, k \in {"feasible", "infeasible", "both"},
        n \in 0..MaxBuilt}

HelperCalls ==
    BuildResponseCalls \cup ScreenCalls \cup TopStationsCalls \cup TransitOnlyCalls
    \cup TaxiOnlyCalls \cup MixedCalls \cup FindOptimalRouteCalls
    \cup EstimateCalls

\* the requests handled next to the helper calls: taxiMaxSegments left out,
\* 0, 1 and 2, a short distance, and a body without maxTimeMin
RequestBodies ==
    {[HelperBody(40, 15) EXCEPT !.taxiMaxSegments = v] : v \in {Undefined, 0, 2}}
    \cup {HelperBody(30, 10),
          [HelperBody(40, 15) EXCEPT !.distanceM = 650],
          HelperBody(Undefined, 15)}
RequestInit ==
    /\ pc = "received"
    /\ body \in RequestBodies
    /\ allCandidates = <<>>
    /\ stationsNearO = <<>>
    /\ stationsNearD = <<>>
    /\ topStations = <<>>
    /\ idx = 0
    /\ pending = NoPending
    /\ response = NoResponse
    /\ call = NoCall
    /\ FormIdle

HelperInit ==
    /\ pc = "helper"
    /\ call \in HelperCalls
    /\ body = call.body
    /\ allCandidates = <<>>
    /\ stationsNearO = <<>>
    /\ stationsNearD = <<>>
    /\ topStations = <<>>
    /\ idx = 0
    /\ pending = NoPending
    /\ response = NoResponse
    /\ FormIdle

\* the helper returns
Return(result) ==
    /\ pc = "helper"
    /\ ~call.returned
    /\ call' = [call EXCEPT !.returned = TRUE, !.result = result]
    /\ UNCHANGED <<pc, body, allCandidates, stationsNearO, stationsNearD,
                   topStations, idx, pending, response, formVars>>

ScreenStationsByEtaCall ==
    /\ call.fn = "screenStationsByEta"
    /\ Return(screenStationsByEta(call.stations, call.etaResults, call.window))

TopStationsCall ==
    /\ call.fn = "TopStations"
    /\ Return(TopStations(call.stations, call.batchEta))

TransitOnlyCandidatesCall ==
    /\ call.fn = "TransitOnlyCandidates"
    /\ Return(TransitOnlyCandidates(<<>>, call.tmapData, call.body))

TaxiOnlyCandidatesCall ==
    /\ call.fn = "TaxiOnlyCandidates"
    /\ Return(TaxiOnlyCandidates(<<>>, call.summary, call.body))

MixedCandidatesCall ==
    /\ call.fn = "MixedCandidates"
    /\ Return(MixedCandidates(<<>>, call.side, call.station, call.summary,
                              call.tmapData, call.body))

BuildResponseCall ==
    /\ call.fn = "buildResponse"
    /\ Return(buildResponse(call.cands, call.body.requireTaxi, DepartureMs))

EstimateWalkTimeMinCall ==
    /\ call.fn = "estimateWalkTimeMin"
    /\ Return(estimateWalkTimeMin(call.totalWalkM, call.subwayTransfers,
                                  call.busTransfers))

FindOptimalRouteCall ==
    /\ call.fn = "findOptimalRoute"
    /\ Return(findOptimalRoute(call.body, call.answers))

HelperNext ==
    \/ BuildResponseCall
    \/ EstimateWalkTimeMinCall
    \/ FindOptimalRouteCall
    \/ ScreenStationsByEtaCall
    \/ TopStationsCall
    \/ TransitOnlyCandidatesCall
    \/ TaxiOnlyCandidatesCall
    \/ MixedCandidatesCall

FullSpec == (RequestInit \/ HelperInit) /\ [][Next \/ HelperNext]_vars

(***************************************************************************)
(* The page.  App holds loading, routeResponse and error and hands the     *)
(* form its three callbacks; RouteSearchForm.handleSubmit is an async      *)
(* function: its synchronous part runs in the submit event, and each of    *)
(* its two awaits (fetch, response.json()) ends in a later step.  What the *)
(* server answers is an input here.                                        *)
(***************************************************************************)
\* handleSubmit calls that create a controller
MaxSubmits == 3

\* whether App hands the form its loading state: it renders
\* <RouteSearchForm onSearch onError onLoadingChange />, without loading
LoadingPassed == FALSE

\* if (loading) return; the prop is undefined when it is not passed
LoadingGuard == LoadingPassed /\ loading

\* the error message of the guard on origin and destination
PlacesMessage == 0

\* a handleSubmit call past its guards: the await it is at, whether its
\* controller was aborted, and what it called when it ended
NewRequest == [stage |-> "fetch", aborted |-> FALSE, called |-> "none"]

\* submitAbortRef.current?.abort()
AbortCurrent ==
    IF submitAbortRef = JsNull
    THEN requests
    ELSE [requests EXCEPT ![submitAbortRef].aborted = TRUE]

selectOrigin ==
    /\ ~origin
    /\ origin' = TRUE
    /\ UNCHANGED <<loading, routeResponse, error, destination, submitAbortRef,
                   requests, requestVars>>

selectDestination ==
    /\ ~destination
    /\ destination' = TRUE
    /\ UNCHANGED <<loading, routeResponse, error, origin, submitAbortRef,
                   requests, requestVars>>

\* the synchronous part of handleSubmit, up to the fetch
handleSubmit ==
    /\ Len(requests) < MaxSubmits
    /\ IF LoadingGuard
       THEN UNCHANGED formVars
       ELSE IF ~origin \/ ~destination
       THEN \* onError -> App.handleError
            /\ error' = PlacesMessage
            /\ routeResponse' = JsNull
            /\ UNCHANGED <<loading, origin, destination, submitAbortRef,
                           requests>>
       ELSE /\ requests' = Append(AbortCurrent, NewRequest)
            /\ submitAbortRef' = Len(requests) + 1
            \* onLoadingChange(true) -> App.handleLoadingChange
            /\ loading' = TRUE
            /\ error' = JsNull
            /\ UNCHANGED <<routeResponse, origin, destination>>
    /\ UNCHANGED requestVars

\* finally: only the request that still owns submitAbortRef clears loading
Finally(k) ==
    IF submitAbortRef = k
    THEN /\ loading' = FALSE
         /\ submitAbortRef' = JsNull
    ELSE UNCHANGED <<loading, submitAbortRef>>

\* request k leaves handleSubmit having called onSearch, onError, or neither
Settle(k, called) ==
    /\ requests' = [requests EXCEPT ![k].stage = "done", ![k].called = called]
    /\ CASE called = "onSearch" -> /\ routeResponse' = k    \* App.handleSearch
                                   /\ error' = JsNull
         [] called = "onError"  -> /\ error' = k            \* App.handleError
                                   /\ routeResponse' = JsNull
         [] OTHER               -> UNCHANGED <<routeResponse, error>>
    /\ Finally(k)
    /\ UNCHANGED <<origin, destination, requestVars>>

\* what the catch block does with the rejection of an await
Caught(k) == IF requests[k].aborted THEN "return" ELSE "onError"

\* await fetch(...) resolves with a response
FetchResolves ==
    \E k \in 1..Len(requests) :
        /\ requests[k].stage = "fetch"
        /\ ~requests[k].aborted
        /\ requests' = [requests EXCEPT ![k].stage = "json"]
        /\ UNCHANGED <<loading, routeResponse, error, origin, destination,
                       submitAbortRef, requestVars>>

\* await fetch(...) rejects: AbortError after abort(), else a network error
FetchRejects ==
    \E k \in 1..Len(requests) :
        /\ requests[k].stage = "fetch"
        /\ Settle(k, Caught(k))

\* await response.json() resolves with data
JsonResolves ==
    \E k \in 1..Len(requests), success \in BOOLEAN :
        /\ requests[k].stage = "json"
        /\ ~requests[k].aborted
        /\ Settle(k, IF success THEN "onSearch" ELSE "onError")

\* await response.json() rejects: AbortError after abort(), else a body that
\* is not JSON
JsonRejects ==
    \E k \in 1..Len(requests) :
        /\ requests[k].stage = "json"
        /\ Settle(k, Caught(k))

FormInit ==
    /\ pc = "page"
    /\ body = JsNull
    /\ allCandidates = <<>>
    /\ stationsNearO = <<>>
    /\ stationsNearD = <<>>
    /\ topStations = <<>>
    /\ idx = 0
    /\ pending = NoPending
    /\ response = NoResponse
    /\ call = NoCall
    /\ FormIdle

FormNext ==
    \/ selectOrigin
    \/ selectDestination
    \/ handleSubmit
    \/ FetchResolves
    \/ FetchRejects
    \/ JsonResolves
    \/ JsonRejects

FormSpec == FormInit /\ [][FormNext]_vars

\* every await of a request ends: the browser resolves or rejects it
FormFairSpec ==
    /\ FormSpec
    /\ WF_vars(FetchResolves \/ FetchRejects)
    /\ WF_vars(JsonResolves \/ JsonRejects)

(***************************************************************************)
(* Properties.                                                             *)
(***************************************************************************)
Candidates == {allCandidates[i] : i \in 1..Len(allCandidates)}
Routes == {response.routes[i] : i \in 1..Len(response.routes)}
HasType(type) == \E c \in Candidates : c.type = type
\* findOptimalRoute has returned a RouteResponse
Responded == pc = "done" /\ response.status = 200

RECURSIVE LegDurationSum(_)
LegDurationSum(legs) ==
    IF legs = <<>> THEN 0
    ELSE JsAdd(Head(legs).durationMin, LegDurationSum(Tail(legs)))
RECURSIVE LegCostSum(_)
LegCostSum(legs) ==
    IF legs = <<>> THEN 0
    ELSE JsAdd(Head(legs).costKrw, LegCostSum(Tail(legs)))

\* C1: every candidate's totalTimeMin is the sum of its legs' durationMin and
\* its totalCostKrw the sum of its legs' costKrw, whatever the providers
\* answered (an itinerary without totalTime gives NaN on both sides).
C1_TotalsAreLegSums ==
    \A c \in Candidates \cup Routes :
        /\ c.totalTimeMin = LegDurationSum(c.legs)
        /\ c.totalCostKrw = LegCostSum(c.legs)

\* a request that ended with candidates of the four provider-backed types
C1_Witness ==
    /\ pc = "done"
    /\ HasType("transit-only") /\ HasType("taxi-only")
    /\ HasType("taxi-transit") /\ HasType("transit-taxi")

\* C2: every candidate's slackMin is the request's maxTimeMin minus its
\* totalTimeMin, negative when the candidate exceeds the time budget.
C2_SlackIsBudgetMinusTime ==
    \A c \in Candidates \cup Routes :
        c.slackMin = JsSub(body.maxTimeMin, c.totalTimeMin)

\* candidates over and under the time budget, a mixed one among them
C2_Witness ==
    /\ \E c \in Candidates : IsNum(c.slackMin) /\ c.slackMin < 0
    /\ \E c \in Candidates : c.type = "taxi-transit" /\ c.slackMin > 0

\* the legs lead from the origin to the destination without a gap
Connected(c) ==
    /\ c.legs[1].from = OriginName
    /\ c.legs[Len(c.legs)].to = DestinationName
    /\ \A i \in 1..(Len(c.legs) - 1) : c.legs[i].to = c.legs[i + 1].from

\* C3: in every candidate the legs form a chain from the origin to the
\* destination; in a mixed candidate the two legs meet at the station.
C3_LegsAreConnected ==
    \A c \in Candidates \cup Routes :
        /\ Connected(c)
        /\ c.type \in {"taxi-transit", "transit-taxi"} =>
               /\ Len(c.legs) = 2
               /\ c.legs[1].to = Station(c.id[2]).stationName

\* both mixed variants were generated
C3_Witness == HasType("taxi-transit") /\ HasType("transit-taxi")

\* the handler accepted the request and findOptimalRoute has ended
Answered == pc = "done" /\ ~MissingFields(body)
\* the candidates that pass selection
SelectedCandidates == {c \in Candidates : Selected(c, body.requireTaxi)}
SortedByCostThenTime(routes) ==
    \A i, j \in 1..Len(routes) :
        i < j => \/ routes[i].totalCostKrw < routes[j].totalCostKrw
                 \/ /\ routes[i].totalCostKrw = routes[j].totalCostKrw
                    /\ routes[i].totalTimeMin <= routes[j].totalTimeMin
SortedByTime(routes) ==
    \A i, j \in 1..Len(routes) :
        i < j => routes[i].totalTimeMin <= routes[j].totalTimeMin

\* C4: when at least one candidate passes selection, the routes returned are
\* in order of non-decreasing totalCostKrw, equal costs in order of
\* non-decreasing totalTimeMin, routes[0] is a cheapest selected candidate and
\* noFeasibleRoute is false.
C4_FeasibleRoutesSorted ==
    Answered /\ SelectedCandidates # {} =>
        /\ response.status = 200
        /\ response.noFeasibleRoute = FALSE
        /\ Len(response.routes) > 0
        /\ SortedByCostThenTime(response.routes)
        /\ \A c \in SelectedCandidates :
               response.routes[1].totalCostKrw <= c.totalCostKrw

\* C5: when no candidate is feasible, the response has noFeasibleRoute = true,
\* its routes are generated candidates in order of non-decreasing
\* totalTimeMin, minPossibleTimeMin is the least totalTimeMin of all generated
\* candidates and minPossibleWalkMin the walkTimeMin of routes[0].
C5_FallbackOnNoFeasible ==
    Answered /\ (\A c \in Candidates : ~c.isFeasible) =>
        /\ response.status = 200
        /\ response.noFeasibleRoute = TRUE
        /\ Routes \subseteq Candidates
        /\ SortedByTime(response.routes)
        /\ Candidates # {} =>
               /\ Len(response.routes) > 0
               /\ \A c \in Candidates :
                      response.minPossibleTimeMin <= c.totalTimeMin
               /\ response.minPossibleTimeMin = response.routes[1].totalTimeMin
               /\ response.minPossibleWalkMin = response.routes[1].walkTimeMin

\* C6: whatever the request and the providers' answers, the response's routes
\* are empty exactly when findOptimalRoute generated no candidate at all.
C6_RoutesEmptyOnlyWithoutCandidates ==
    Answered => (Len(response.routes) = 0 <=> Len(allCandidates) = 0)

\* C7: with requireTaxi set, a response with noFeasibleRoute = false returns
\* only candidates that are feasible and have hasTaxi = true, namely the
\* selected ones; a feasible candidate without a taxi leg is not among them.
C7_RequireTaxiKeepsTaxiRoutes ==
    Responded /\ body.requireTaxi /\ ~response.noFeasibleRoute =>
        /\ \A r \in Routes : r.hasTaxi /\ r.isFeasible
        /\ Routes \subseteq Candidates
        /\ \A c \in Candidates :
               c.type \in {"transit-only", "walk-only"} => c \notin Routes

\* requireTaxi kept a feasible transit-only candidate out of the routes
C7_Witness ==
    /\ Responded /\ body.requireTaxi /\ ~response.noFeasibleRoute
    /\ Len(response.routes) > 0
    /\ \E c \in Candidates : c.type = "transit-only" /\ c.isFeasible

C9_ProviderFailureNeverAborts ==
    Answered => /\ response.status = 200
                /\ response.success = TRUE
                /\ Routes \subseteq Candidates

\* the station loops: each station takes a first provider call and, when that
\* one answers, a second
InStationLoop == pc \in {"taxiLegO", "transitO", "transitD", "taxiLegD"}
LoopSide == IF pc \in {"taxiLegO", "transitO"} THEN "origin" ELSE "destination"
FirstCall(side) == IF side = "origin" THEN "taxiLegO" ELSE "transitD"
SecondCall(side) == IF side = "origin" THEN "transitO" ELSE "taxiLegD"
MixedType(side) == IF side = "origin" THEN "taxi-transit" ELSE "transit-taxi"

\* a candidate without the arrival times buildResponse writes into it
Unstamped(c) ==
    [c EXCEPT !.departureTime = Undefined, !.arrivalTime = Undefined,
              !.legs = [i \in 1..Len(c.legs) |->
                           [c.legs[i] EXCEPT !.arrivalTime = Undefined]]]
OfStation(c, side, station) ==
    c.type = MixedType(side) /\ c.id[2] = station.stationID
\* the candidates of one station, in the order they were pushed
StationCandidates(cands, side, station) ==
    LET Test(c) == OfStation(c, side, station)
        own == SelectSeq(cands, Test)
    IN  [i \in 1..Len(own) |-> Unstamped(own[i])]
\* how many times x is among the candidates that are not of that station
OtherCount(cands, side, station, x) ==
    Cardinality({i \in 1..Len(cands) :
                    /\ ~OfStation(cands[i], side, station)
                    /\ Unstamped(cands[i]) = x})
\* own is what a station can add on its own: nothing, or the candidates of
\* some pair of answers to its two calls
YieldOfStation(own, side, station) ==
    \/ own = <<>>
    \/ \E k \in KakaoOutcomes(StationSummaries),
          t \in TmapOutcomes(StationItineraryLists) :
          /\ getKakaoDirectionsPrecise(k).hasSummary
          /\ own = MixedCandidates(<<>>, side, station,
                                   getKakaoDirectionsPrecise(k),
                                   searchTmapRoute(t), body)

\* this step ends the iteration of station topStations[idx]
StationEnds ==
    InStationLoop /\ ~(pc = FirstCall(LoopSide) /\ pc' = SecondCall(LoopSide))
\* the loop goes on with the next station, or ends after the last one
LoopContinues ==
    IF idx < Len(topStations)
    THEN pc' = FirstCall(LoopSide) /\ idx' = idx + 1 /\ topStations' = topStations
    ELSE pc' \in (IF LoopSide = "origin" THEN {"batchEtaD", "done"} ELSE {"done"})
\* the candidates of the other stations (and the direct ones) are untouched:
\* they stay in place while findOptimalRoute runs; buildResponse stamps and
\* may reorder them, so the last step compares them without stamps and order
OthersUntouched ==
    IF pc' # "done"
    THEN /\ Len(allCandidates') >= Len(allCandidates)
         /\ SubSeq(allCandidates', 1, Len(allCandidates)) = allCandidates
         /\ \A i \in (Len(allCandidates) + 1)..Len(allCandidates') :
                OfStation(allCandidates'[i], LoopSide, topStations[idx])
    ELSE \A x \in {Unstamped(allCandidates[i]) : i \in 1..Len(allCandidates)}
                  \cup {Unstamped(allCandidates'[i]) : i \in 1..Len(allCandidates')} :
             OtherCount(allCandidates', LoopSide, topStations[idx], x)
                 = OtherCount(allCandidates, LoopSide, topStations[idx], x)

\* C10: when a station's iteration ends, with a failure of its first call
\* (nothing is added), of its second call or with candidates, the loop goes on
\* with the next station, the candidates of all other stations stay as they
\* are, and what this station added depends on its own answers only.
C10_StationFailureSkipsOnlyThatStation ==
    [][StationEnds =>
          /\ LoopContinues
          /\ (pc = FirstCall(LoopSide) => Len(allCandidates') = Len(allCandidates))
          /\ OthersUntouched
          /\ YieldOfStation(
                 StationCandidates(allCandidates', LoopSide, topStations[idx]),
                 LoopSide, topStations[idx])]_vars

\* the first station of a loop left nothing and the loop is at its second
\* station, whose first call has answered
C10_Witness ==
    /\ pc \in {"transitO", "taxiLegD"}
    /\ idx = 2
    /\ \A c \in Candidates : ~OfStation(c, LoopSide, topStations[1])

\* one of the four required fields is not in the body
FieldsAbsent(b) ==
    \/ ~b.hasOrigin
    \/ ~b.hasDestination
    \/ b.maxTimeMin = Undefined
    \/ b.maxWalkMin = Undefined

\* C11: the handler answers 400 'Missing required fields', before any
\* provider call, exactly when origin, destination, maxTimeMin or maxWalkMin
\* is missing; a body with all four present, whatever their values (0
\* included), goes on to candidate generation.
C11_RejectsExactlyWhenMissing ==
    /\ pc # "received" => (response.status = 400 <=> FieldsAbsent(body))
    /\ response.status = 400 =>
           /\ response.error = "Missing required fields"
           /\ allCandidates = <<>> /\ stationsNearO = <<>> /\ stationsNearD = <<>>

\* the least number of whole minutes that covers m metres at 70 m/min
WalkMinutes(m) == (m + 69) \div 70

\* C12: findOptimalRoute, called with two places less than 700 m apart,
\* returns at once, before any provider is called, with exactly one candidate:
\* walk-only, one walk leg of ceil(distance / 70) minutes and cost 0, feasible
\* exactly when that time is within maxWalkMin and within maxTimeMin.
C12_ShortWalkShortCircuit ==
    [][pc = "received" /\ ~MissingFields(body) /\ body.distanceM < 700 =>
          /\ pc' = "done"
          /\ stationsNearO' = <<>> /\ stationsNearD' = <<>>
          /\ Len(allCandidates') = 1
          /\ LET c == allCandidates'[1]
                 walkMin == WalkMinutes(body.distanceM)
             IN  /\ c.type = "walk-only"
                 /\ Len(c.legs) = 1
                 /\ c.legs[1].type = "walk"
                 /\ c.legs[1].durationMin = walkMin
                 /\ c.legs[1].costKrw = 0
                 /\ c.totalTimeMin = walkMin /\ c.totalCostKrw = 0
                 /\ c.isFeasible <=> /\ JsLe(walkMin, body.maxWalkMin)
                                     /\ JsLe(walkMin, body.maxTimeMin)
                 /\ response'.status = 200
                 /\ response'.routes = <<c>>]_vars

\* a 699 m request answered with its feasible 10-minute walk
C12_Witness ==
    /\ pc = "done" /\ body.distanceM = 699
    /\ \E c \in Routes : c.type = "walk-only" /\ c.isFeasible /\ c.totalTimeMin = 10

\* a helper call of fn has returned
Returned(fn) == call.fn = fn /\ call.returned
\* an ETA of d seconds is, in minutes, within the window, ends included
InWindow(d, window) == IsNum(d) /\ 60 * window[1] <= d /\ d <= 60 * window[2]
\* the positions of the stations that have an ETA within the window
Passing(stations, etaResults, window) ==
    {i \in 1..Len(stations) :
        i <= Len(etaResults) /\ InWindow(etaResults[i], window)}
\* list holds exactly the stations at these positions, in their input order
IsSelection(list, stations, positions) ==
    /\ {list[k].stationID : k \in 1..Len(list)} = positions
    /\ \A k \in 1..Len(list) : list[k] = stations[list[k].stationID]
    /\ \A j, k \in 1..Len(list) : j < k => list[j].stationID < list[k].stationID

\* C16: screenStationsByEta pairs station i with ETA result i and returns, in
\* input order, exactly the stations whose ETA (seconds / 60) is within
\* [lowMin, highMin], both ends included; a station without a paired ETA
\* result, or whose result has no duration, is not returned.
C16_ScreenKeepsStationsInWindow ==
    Returned("screenStationsByEta") =>
        IsSelection(call.result, call.stations,
                    Passing(call.stations, call.etaResults, call.window))

\* three stations, two ETA results: 9 minutes passes the primary window, 9
\* minutes 1 second does not, the third station has no result
C16_Witness ==
    /\ Returned("screenStationsByEta")
    /\ call.window = TAXI_ROI_WINDOW_PRIMARY
    /\ Len(call.stations) = 3
    /\ call.etaResults = <<540, 541>>
    /\ call.result = <<Station(1)>>

\* the positions kept by the two windows in sequence: those of the primary
\* window if they are 5 or more, those of the expanded window otherwise
ScreenedPositions(stations, etaResults) ==
    LET primary == Passing(stations, etaResults, <<6, 9>>)
    IN  IF Cardinality(primary) >= 5
        THEN primary
        ELSE Passing(stations, etaResults, <<5, 12>>)

\* C15: a side's stations are screened with the primary window [6,9] and, if
\* fewer than 5 pass, with the expanded window [5,12] over the same input,
\* whose result replaces the primary one; with 5 or more in the primary window
\* the expanded one is not applied.  ETAs of 5, 6, 7, 10 and 13 minutes keep
\* the stations with 5, 6, 7 and 10.
C15_TwoWindowsInSequence ==
    Returned("TopStations") /\ call.batchEta.hasRoutes =>
        LET kept == ScreenedPositions(call.stations, call.batchEta.routes)
        IN  /\ Cardinality(kept) <= 15 =>
                   IsSelection(call.result, call.stations, kept)
            /\ call.batchEta.routes = <<300, 360, 420, 600, 780>> =>
                   call.result = <<Station(1), Station(2), Station(3), Station(4)>>

\* five stations in the primary window and a sixth at 10 minutes, which the
\* expanded window would keep: the five are returned
C15_Witness ==
    /\ Returned("TopStations")
    /\ call.batchEta.routes = <<420, 420, 600, 420, 420, 420>>
    /\ call.result = <<Station(1), Station(2), Station(4), Station(5), Station(6)>>

\* the itineraries of a transit answer, none when it has no list
Itineraries(tmapData) ==
    IF tmapData.hasItineraries THEN tmapData.itineraries ELSE <<>>
MeetsBudgets(c, b) ==
    JsLe(c.totalTimeMin, b.maxTimeMin) /\ JsLe(c.walkTimeMin, b.maxWalkMin)
IsMixed(c) == c.type \in {"taxi-transit", "transit-taxi"}
\* positions of a station's first three itineraries that meet both budgets
\* together with the ride of the summary
KeptPositions(summary, itineraries, b) ==
    {i \in 1..Min(Len(itineraries), 3) :
        /\ JsLe(JsAdd(JsAdd(MathCeilDiv(summary.duration, 60), 2),
                      MathCeilDiv(itineraries[i].totalTime, 60)),
                b.maxTimeMin)
        /\ JsLe(TransitWalkTimeMin(itineraries[i]) + 1, b.maxWalkMin)}

\* C13: the transit-only branch adds one candidate for each of the first 5
\* itineraries and the taxi-only branch adds its candidate, feasible or not;
\* the mixed loop of a station adds exactly the candidates that meet both
\* budgets; so every mixed candidate of a request, and every mixed route of
\* a response, has isFeasible = true and is within both budgets.
C13_RetentionPolicy ==
    /\ Returned("TransitOnlyCandidates") =>
           LET its == Itineraries(call.tmapData)
           IN  /\ Len(call.result) = Min(Len(its), 5)
               /\ \A i \in 1..Len(call.result) :
                      /\ call.result[i].type = "transit-only"
                      /\ call.result[i].totalTimeMin
                             = MathCeilDiv(its[i].totalTime, 60)
                      /\ call.result[i].isFeasible
                             <=> MeetsBudgets(call.result[i], call.body)
    /\ Returned("TaxiOnlyCandidates") =>
           /\ Len(call.result)
                  = IF /\ call.summary.hasSummary
                       /\ call.summary.duration # Undefined
                       /\ call.summary.distance # Undefined
                    THEN 1 ELSE 0
           /\ \A i \in 1..Len(call.result) :
                  call.result[i].type = "taxi-only"
    /\ Returned("MixedCandidates") =>
           /\ Len(call.result)
                  = Cardinality(KeptPositions(call.summary,
                                              Itineraries(call.tmapData),
                                              call.body))
           /\ \A i \in 1..Len(call.result) :
                  /\ IsMixed(call.result[i])
                  /\ call.result[i].isFeasible
                  /\ MeetsBudgets(call.result[i], call.body)
    /\ \A c \in Candidates \cup Routes :
           IsMixed(c) => c.isFeasible /\ MeetsBudgets(c, body)
    /\ response.noFeasibleRoute = TRUE =>
           \A r \in Routes : ~IsMixed(r)

\* a station's loop has kept one candidate and dropped another for its walk
C13_Witness ==
    /\ Returned("MixedCandidates")
    /\ Len(call.result) >= 1
    /\ Len(call.result) < Min(Len(Itineraries(call.tmapData)), 3)
    /\ call.body.maxTimeMin = 40
    /\ call.body.maxWalkMin = 10

\* the part of a request that only a mixed attempt reaches
InMixedBranch ==
    pc \in {"stations", "batchEtaO", "taxiLegO", "transitO", "batchEtaD",
            "transitD", "taxiLegD"}
WithSegments(b, v) == [b EXCEPT !.taxiMaxSegments = v]

\* C14: the station search, the batch ETA and the per-station calls are
\* reached only with taxiMaxSegments >= 1 (1 when left out); with 0 no
\* station is looked up and no mixed candidate or route exists; and with the
\* same provider answers findOptimalRoute responds the same for every
\* value >= 1 and for the value left out.
C14_MixedOnlyWithTaxiSegments ==
    /\ InMixedBranch =>
           body.taxiMaxSegments = Undefined \/ body.taxiMaxSegments >= 1
    /\ call = NoCall /\ body.taxiMaxSegments = 0 =>
           /\ stationsNearO = <<>> /\ stationsNearD = <<>>
           /\ topStations = <<>>
           /\ \A c \in Candidates \cup Routes : ~IsMixed(c)
    /\ Returned("findOptimalRoute") =>
           /\ call.body.taxiMaxSegments = 0 =>
                  \A i \in 1..Len(call.result.routes) :
                      ~IsMixed(call.result.routes[i])
           /\ call.body.taxiMaxSegments # 0 =>
                  \A v \in SegmentValues \ {0} :
                      call.result
                          = findOptimalRoute(WithSegments(call.body, v),
                                             call.answers)

\* a request for two taxi segments is answered with a taxi-transit route
C14_Witness ==
    /\ Returned("findOptimalRoute")
    /\ call.body.taxiMaxSegments = 2
    /\ \E i \in 1..Len(call.result.routes) :
           call.result.routes[i].type = "taxi-transit"

\* the n smallest of a set of positions
FirstOf(positions, n) ==
    {p \in positions : Cardinality({q \in positions : q < p}) < n}
\* the mixed candidates of a side
OfSide(side) == {c \in Candidates : c.type = MixedType(side)}

\* C17: the stations a side attempts are the first 15 of its screened list
\* (of all its stations when the batch answer has no routes), in order; a
\* station's loop adds at most 3 candidates; and while a side's loop runs,
\* the station asked about is one of that list and every mixed candidate of
\* the side comes from a station of the list reached so far, at most 3 each.
C17_StationsCappedAt15 ==
    /\ Returned("TopStations") =>
           LET kept == IF call.batchEta.hasRoutes
                       THEN ScreenedPositions(call.stations,
                                              call.batchEta.routes)
                       ELSE 1..Len(call.stations)
           IN  /\ Len(call.result) <= 15
               /\ IsSelection(call.result, call.stations, FirstOf(kept, 15))
    /\ Returned("MixedCandidates") => Len(call.result) <= 3
    /\ InStationLoop =>
           LET near == IF LoopSide = "origin" THEN stationsNearO
                       ELSE stationsNearD
               reached == {topStations[j].stationID : j \in 1..idx}
           IN  /\ 1 <= idx /\ idx <= Len(topStations)
               /\ Len(topStations) <= 15
               /\ \A j \in 1..Len(topStations) :
                      \E k \in 1..Len(near) : topStations[j] = near[k]
               /\ \A c \in OfSide(LoopSide) :
                      /\ c.id[2] \in reached
                      /\ Cardinality({d \in OfSide(LoopSide) :
                                         d.id[2] = c.id[2]}) <= 3

\* seventeen stations, all with an ETA in the primary window: the first
\* fifteen are attempted
C17_Witness ==
    /\ Returned("TopStations")
    /\ call.batchEta.hasRoutes
    /\ Len(call.stations) = 17
    /\ Len(call.result) = 15
    /\ call.result[15] = Station(15)

\* seconds in whole minutes, rounded up
CeilMinutes(sec) == (sec + 59) \div 60
\* the taxi leg of a mixed candidate
TaxiLegOf(c) == IF c.type = "taxi-transit" THEN c.legs[1] ELSE c.legs[2]

\* C18: the taxi leg of a taxi-only candidate and of both mixed variants
\* lasts ceil(duration / 60) + 2 minutes; the taxi-only candidate has that
\* time as its total, walkTimeMin 0, and is feasible exactly when the time is
\* within maxTimeMin, whatever maxWalkMin is.
C18_TaxiLegTime ==
    /\ Returned("TaxiOnlyCandidates") =>
           \A i \in 1..Len(call.result) :
               LET c == call.result[i]
                   time == CeilMinutes(call.summary.duration) + 2
               IN  /\ c.legs[1].type = "taxi"
                   /\ c.legs[1].durationMin = time
                   /\ c.totalTimeMin = time
                   /\ c.walkTimeMin = 0
                   /\ c.isFeasible <=> time <= call.body.maxTimeMin
    /\ Returned("MixedCandidates") =>
           \A i \in 1..Len(call.result) :
               /\ TaxiLegOf(call.result[i]).type = "taxi"
               /\ TaxiLegOf(call.result[i]).durationMin
                      = CeilMinutes(call.summary.duration) + 2
    /\ \A c \in Candidates :
           c.type = "taxi-only" =>
               /\ c.legs[1].durationMin
                      = CeilMinutes(c.legs[1].details.duration) + 2
               /\ c.walkTimeMin = 0
               /\ c.isFeasible <=> c.legs[1].durationMin <= body.maxTimeMin

\* a ride of 18 minutes is feasible in 20 minutes with a walk budget below 0
C18_Witness ==
    /\ Returned("TaxiOnlyCandidates")
    /\ call.summary.duration = 1080
    /\ call.body.maxTimeMin = 20
    /\ call.body.maxWalkMin = 0 - 1
    /\ Len(call.result) = 1
    /\ call.result[1].isFeasible
    /\ call.result[1].totalTimeMin = 20

\* the fare of a ride as the provider gives it, else from the distance
FareOf(summary) ==
    IF summary.taxi # Undefined THEN summary.taxi
    ELSE JsAdd(4800, summary.distance)
TollOf(summary) == IF summary.toll # Undefined THEN summary.toll ELSE 0
\* the leg carries this fare and toll and costs their sum
TaxiLegCharges(leg, summary) ==
    /\ leg.details.taxiFare = FareOf(summary)
    /\ leg.details.tollFare = TollOf(summary)
    /\ leg.costKrw = JsAdd(FareOf(summary), TollOf(summary))

\* C19: a taxi leg's fare is the fare the provider returned, and
\* 4800 + distance (12800 for 8000 m) only when the provider returned none;
\* the leg costs fare plus toll, the toll being 0 when absent.
C19_ProviderFareElseFallback ==
    /\ Returned("TaxiOnlyCandidates") =>
           \A i \in 1..Len(call.result) :
               /\ TaxiLegCharges(call.result[i].legs[1], call.summary)
               /\ call.summary.taxi = Undefined /\ call.summary.distance = 8000
                      => call.result[i].legs[1].details.taxiFare = 12800
    /\ Returned("MixedCandidates") =>
           \A i \in 1..Len(call.result) :
               TaxiLegCharges(TaxiLegOf(call.result[i]), call.summary)

\* metres of the WALK legs among the first n legs, a leg without distance
\* counting 0
RECURSIVE WalkMetres(_, _)
WalkMetres(legs, n) ==
    IF n = 0 THEN 0
    ELSE WalkMetres(legs, n - 1)
         + (IF legs[n].mode = "WALK" /\ IsNum(legs[n].distance)
            THEN legs[n].distance ELSE 0)
LegsOfMode(legs, mode) == Cardinality({i \in 1..Len(legs) : legs[i].mode = mode})
\* the walk time of an itinerary as the claim states it
StatedWalkTime(itinerary) ==
    WalkMinutes(WalkMetres(itinerary.legs, Len(itinerary.legs)))
    + 3 * LegsOfMode(itinerary.legs, "SUBWAY")
    + LegsOfMode(itinerary.legs, "BUS")
\* the transit leg of a candidate that has one
TransitLegOf(c) == IF c.type = "transit-taxi" \/ c.type = "transit-only"
                   THEN c.legs[1] ELSE c.legs[2]

\* C20: estimateWalkTimeMin is ceil(metres / 70) + 3 per subway leg + 1 per bus
\* leg (20 for 1000 m, one subway, two buses); a transit-only candidate's
\* walkTimeMin is that value for the metres of its itinerary's WALK legs, a
\* mixed candidate's is one minute more, and a mixed candidate is kept on the
\* value with that minute in it.
C20_WalkTime ==
    /\ Returned("estimateWalkTimeMin") =>
           /\ call.result = WalkMinutes(call.totalWalkM)
                                + 3 * call.subwayTransfers + call.busTransfers
           /\ (/\ call.totalWalkM = 1000 /\ call.subwayTransfers = 1
               /\ call.busTransfers = 2) => call.result = 20
    /\ Returned("TransitOnlyCandidates") =>
           \A i \in 1..Len(call.result) :
               call.result[i].walkTimeMin
                   = StatedWalkTime(call.tmapData.itineraries[i])
    /\ Returned("MixedCandidates") =>
           LET its == Itineraries(call.tmapData)
               kept == KeptPositions(call.summary, its, call.body)
           IN  /\ Len(call.result) = Cardinality(kept)
               /\ \A i \in 1..Len(call.result) :
                      /\ \E k \in kept :
                             call.result[i].walkTimeMin
                                 = StatedWalkTime(its[k]) + 1
                      /\ call.result[i].walkTimeMin <= call.body.maxWalkMin
    /\ \A c \in Candidates :
           c.type \in {"transit-only", "taxi-transit", "transit-taxi"} =>
               LET d == TransitLegOf(c).details
               IN  c.walkTimeMin
                       = WalkMinutes(d.totalWalkM) + 3 * d.subwayCount
                         + d.busCount + (IF IsMixed(c) THEN 1 ELSE 0)

\* an itinerary that walks 6 + 3 + 1 minutes is dropped under a walk budget
\* of 10 minutes: with the drop-off minute it walks 11
C20_Witness ==
    /\ Returned("MixedCandidates")
    /\ call.body.maxTimeMin = 40
    /\ call.body.maxWalkMin = 10
    /\ call.summary.duration = 410
    /\ call.tmapData.itineraries = <<ItinLong>>
    /\ call.result = <<>>

\* C21: a mixed candidate's id is made of its type, its station's id and its
\* itinerary's path type, and no two candidates generated in one request
\* have the same id.
C21_CandidateIdsDistinct ==
    /\ \A i \in 1..Len(allCandidates) :
           IsMixed(allCandidates[i]) =>
               /\ Len(allCandidates[i].id) = 3
               /\ allCandidates[i].id[1] = allCandidates[i].type
    /\ \A i, j \in 1..Len(allCandidates) :
           i # j => allCandidates[i].id # allCandidates[j].id

\* the candidates in sight: those of the request, its routes, and the result
\* of a helper that returns candidates or a response
ResultCandidates ==
    IF call = NoCall \/ ~call.returned THEN {}
    ELSE IF call.fn \in {"TransitOnlyCandidates", "TaxiOnlyCandidates",
                         "MixedCandidates"}
    THEN {call.result[i] : i \in 1..Len(call.result)}
    ELSE IF call.fn = "findOptimalRoute"
    THEN {call.result.routes[i] : i \in 1..Len(call.result.routes)}
    ELSE {}
TaxiLegCount(c) == Cardinality({i \in 1..Len(c.legs) : c.legs[i].type = "taxi"})

\* C22: a candidate has at most one taxi leg and hasTaxi says whether it has
\* one; a mixed candidate has two legs, taxi then transit for taxi-transit
\* and transit then taxi for transit-taxi, whatever taxiMaxSegments is.
C22_OneTaxiLegAtAnEnd ==
    \A c \in Candidates \cup Routes \cup ResultCandidates :
        /\ TaxiLegCount(c) <= 1
        /\ c.hasTaxi <=> TaxiLegCount(c) = 1
        /\ c.type = "taxi-transit" =>
               /\ Len(c.legs) = 2
               /\ c.legs[1].type = "taxi" /\ c.legs[2].type = "transit"
        /\ c.type = "transit-taxi" =>
               /\ Len(c.legs) = 2
               /\ c.legs[1].type = "transit" /\ c.legs[2].type = "taxi"

\* a request for two taxi segments has a transit-taxi and a taxi-transit
\* candidate
C22_Witness ==
    /\ body.taxiMaxSegments = 2
    /\ HasType("transit-taxi")
    /\ HasType("taxi-transit")
    /\ HasType("taxi-only")

\* a time that many minutes after departure, in milliseconds
MinutesAfter(departure, min) ==
    IF IsNum(min) THEN departure + 60000 * min ELSE NaN
\* the arrival times the claim states for a candidate that left at departure
ArrivalStated(c, departure) ==
    /\ \A i \in 1..Len(c.legs) :
           /\ IsNum(c.legs[i].arrivalTime)
           /\ c.legs[i].arrivalTime
                  = MinutesAfter(departure,
                                 LegDurationSum(SubSeq(c.legs, 1, i)))
    /\ \A i \in 1..(Len(c.legs) - 1) :
           c.legs[i].arrivalTime <= c.legs[i + 1].arrivalTime
    /\ c.arrivalTime = c.legs[Len(c.legs)].arrivalTime
    /\ c.arrivalTime = MinutesAfter(departure, c.totalTimeMin)

\* C23: once a request that passed validation is answered, every candidate
\* has its arrival times: each leg arrives at the departure time plus the
\* durations of the legs up to it, the times do not decrease along the legs,
\* and the candidate arrives with its last leg, totalTimeMin after departure.
C23_ArrivalTimesAttached ==
    Answered =>
        \A c \in Candidates \cup Routes : ArrivalStated(c, DepartureMs)

\* two routes that the sort of the response does not tell apart
Tied(resp, a, b) ==
    /\ a.totalTimeMin = b.totalTimeMin
    /\ resp.noFeasibleRoute \/ a.totalCostKrw = b.totalCostKrw
\* where a route stands in the list of generated candidates, 0 if nowhere
GenerationIndex(generated, route) ==
    IF \E p \in 1..Len(generated) : generated[p] = Unstamped(route)
    THEN CHOOSE p \in 1..Len(generated) :
             /\ generated[p] = Unstamped(route)
             /\ \A q \in 1..(p - 1) : generated[q] # Unstamped(route)
    ELSE 0
\* the routes are generated candidates and those that tie stand in the order
\* in which they were generated
TiesInGenerationOrder(resp, generated) ==
    /\ \A i \in 1..Len(resp.routes) :
           GenerationIndex(generated, resp.routes[i]) > 0
    /\ \A i, j \in 1..Len(resp.routes) :
           i < j /\ Tied(resp, resp.routes[i], resp.routes[j]) =>
               \/ resp.routes[i] = resp.routes[j]
               \/ GenerationIndex(generated, resp.routes[i])
                      < GenerationIndex(generated, resp.routes[j])

Dominates(a, b) ==
    /\ a.totalTimeMin <= b.totalTimeMin
    /\ a.totalCostKrw <= b.totalCostKrw
    /\ a.walkTimeMin <= b.walkTimeMin
    /\ \/ a.totalTimeMin < b.totalTimeMin
       \/ a.totalCostKrw < b.totalCostKrw
       \/ a.walkTimeMin < b.walkTimeMin

\* C25: no route of a feasible response is dominated in (totalTimeMin,
\* totalCostKrw, walkTimeMin) by another feasible candidate of the request.
C25_NoDominatedRoute ==
    Responded /\ ~response.noFeasibleRoute =>
        \A r \in Routes :
            \A c \in Candidates : c.isFeasible => ~Dominates(c, r)

\* C26: a request that passed validation is answered with noFeasibleRoute =
\* true exactly when no generated candidate passes selection (isFeasible and,
\* with requireTaxi, hasTaxi); the routes are then the generated candidates
\* ranked without either filter; and with noFeasibleRoute = false both
\* minPossibleTimeMin and minPossibleWalkMin are null.
C26_FallbackExactlyWithoutSelection ==
    Answered =>
        /\ response.noFeasibleRoute = TRUE <=> SelectedCandidates = {}
        /\ response.noFeasibleRoute = TRUE =>
               /\ response.count = Len(allCandidates)
               /\ Len(response.routes) = Min(Len(allCandidates), 5)
               /\ \A i \in 1..Len(response.routes) :
                      response.routes[i] = allCandidates[i]
        /\ response.noFeasibleRoute = FALSE =>
               /\ response.minPossibleTimeMin = JsNull
               /\ response.minPossibleWalkMin = JsNull

\* the positions of the candidates that pass selection
SelectedPositions(cands, requireTaxi) ==
    {i \in 1..Len(cands) : Selected(cands[i], requireTaxi)}
\* a stands strictly before b in the order of the response
RanksBefore(resp, a, b) ==
    IF resp.noFeasibleRoute
    THEN a.totalTimeMin < b.totalTimeMin
    ELSE \/ a.totalCostKrw < b.totalCostKrw
         \/ /\ a.totalCostKrw = b.totalCostKrw
            /\ a.totalTimeMin < b.totalTimeMin
\* count and routes of a response built from these candidates
CountsSelection(resp, cands, requireTaxi) ==
    LET ranked == IF resp.noFeasibleRoute THEN 1..Len(cands)
                  ELSE SelectedPositions(cands, requireTaxi)
        limit == IF resp.noFeasibleRoute THEN 5 ELSE 10
    IN  /\ resp.count = Cardinality(ranked)
        /\ Len(resp.routes) = Min(resp.count, limit)
        /\ \A i \in 1..(Len(resp.routes) - 1) :
               ~RanksBefore(resp, resp.routes[i + 1], resp.routes[i])
        /\ \A p \in ranked :
               \/ \E i \in 1..Len(resp.routes) :
                      Unstamped(resp.routes[i]) = Unstamped(cands[p])
               \/ ~RanksBefore(resp, cands[p], resp.routes[Len(resp.routes)])

\* C27: count is the number of candidates ranked (those that pass selection,
\* or all generated ones in a fallback), the routes are the first
\* min(count, 10), in a fallback min(count, 5), of the sorted list.
C27_CountBeforeTruncation ==
    /\ Returned("buildResponse") =>
           CountsSelection(call.result, call.cands, call.body.requireTaxi)
    /\ Responded =>
           CountsSelection(response, allCandidates, body.requireTaxi)

\* eleven candidates pass selection and ten are returned
C27_Witness ==
    /\ Returned("buildResponse")
    /\ ~call.result.noFeasibleRoute
    /\ call.result.count = 11
    /\ Len(call.result.routes) = 10

\* the stations of a list, as a set
StationsOf(list) == {list[k] : k \in 1..Len(list)}

\* C28: a station within [6,9] is within [5,12], so what the expanded window
\* keeps of an input contains what the primary window keeps of it; when the
\* expanded result replaces the primary one it holds the stations of both,
\* in the order of the input.
C28_ExpandedContainsPrimary ==
    /\ Returned("screenStationsByEta")
       /\ call.window = TAXI_ROI_WINDOW_PRIMARY =>
           StationsOf(call.result)
               \subseteq StationsOf(screenStationsByEta(call.stations,
                                                        call.etaResults,
                                                        TAXI_ROI_WINDOW_EXPAND))
    /\ Returned("TopStations") /\ call.batchEta.hasRoutes =>
           LET primary == Passing(call.stations, call.batchEta.routes, <<6, 9>>)
               expanded == Passing(call.stations, call.batchEta.routes, <<5, 12>>)
           IN  /\ primary \subseteq expanded
               /\ Cardinality(primary) < 5 /\ Cardinality(expanded) <= 15 =>
                      IsSelection(call.result, call.stations,
                                  primary \cup expanded)

\* ETAs of 5, 6, 7, 10 and 13 minutes: two stations pass the primary window,
\* the expanded one keeps them and adds the stations at 5 and 10 minutes
C28_Witness ==
    /\ Returned("TopStations")
    /\ call.batchEta.routes = <<300, 360, 420, 600, 780>>
    /\ Passing(call.stations, call.batchEta.routes, <<6, 9>>) = {2, 3}
    /\ call.result = <<Station(1), Station(2), Station(3), Station(4)>>

\* what a returned screening-and-cap call must have given
UnscreenedOrNone(c) ==
    /\ ~c.batchEta.hasRoutes =>
           IsSelection(c.result, c.stations,
                       1..Min(Len(c.stations), 15))
    /\ (/\ c.batchEta.hasRoutes
        /\ Passing(c.stations, c.batchEta.routes, <<6, 9>>) = {}
        /\ Passing(c.stations, c.batchEta.routes, <<5, 12>>) = {}) =>
           c.result = <<>>
OriginSide == {"batchEtaO", "taxiLegO", "transitO"}
DestinationSide == {"batchEtaD", "transitD", "taxiLegD"}

\* C29: without a routes list in the batch answer a side attempts all its
\* stations, up to 15, unscreened; with a routes list in which no station is
\* within either window it attempts none; and a side without stations, or
\* without stations to attempt, is passed over while the other side still
\* runs: the destination side starts whenever stations were found near the
\* destination, whatever the origin side did.
C29_SideSkippedAlone ==
    [][/\ (call'.fn = "TopStations" /\ call'.returned) => UnscreenedOrNone(call')
       /\ pc = "stations" =>
              /\ Len(stationsNearO') > 0 => pc' = "batchEtaO"
              /\ Len(stationsNearO') = 0 /\ Len(stationsNearD') > 0 =>
                     pc' = "batchEtaD"
              /\ Len(stationsNearO') = 0 /\ Len(stationsNearD') = 0 =>
                     pc' = "done"
       /\ pc \in OriginSide /\ pc' \notin OriginSide =>
              IF Len(stationsNearD) > 0 THEN pc' = "batchEtaD" ELSE pc' = "done"
       /\ pc = "batchEtaO" /\ pc' = "taxiLegO" =>
              /\ Len(topStations') > 0
              /\ StationsOf(topStations') \subseteq StationsOf(stationsNearO)
       /\ pc = "batchEtaD" /\ pc' = "transitD" =>
              /\ Len(topStations') > 0
              /\ StationsOf(topStations') \subseteq StationsOf(stationsNearD)
      ]_vars

\* stations were found on both sides, the origin side added nothing, and the
\* destination side is trying its station
C29_Witness ==
    /\ pc = "taxiLegD"
    /\ Len(stationsNearO) > 0
    /\ topStations = stationsNearD
    /\ ~HasType("taxi-transit")

\* request k has not left handleSubmit
InFlight(k) == requests[k].stage # "done"
\* a handleSubmit call got past its guards in this step
Started == Len(requests') > Len(requests)
\* request k left handleSubmit in this step
Ended(k) == InFlight(k) /\ requests'[k].stage = "done"
\* while loading is true a submit changes nothing
SubmitIgnoredWhileLoading == loading => ~Started /\ requests' \in {requests} \cup
    {[requests EXCEPT ![k].stage = st, ![k].called = c] :
        k \in 1..Len(requests), st \in {"json", "done"},
        c \in {"none", "onSearch", "onError", "return"}}
\* a request that starts aborts the request still in flight
EarlierAborted ==
    Started => \A k \in 1..Len(requests) : InFlight(k) => requests'[k].aborted
\* an aborted request ends without onSearch, onError or a change of loading
SupersededSilent ==
    \A k \in 1..Len(requests) :
        requests[k].aborted /\ Ended(k) =>
            /\ requests'[k].called = "return"
            /\ UNCHANGED <<loading, routeResponse, error>>
\* a result is delivered, and loading cleared, by the last request only
LatestDelivers ==
    /\ \A k \in 1..Len(requests) :
           Ended(k) /\ requests'[k].called \in {"onSearch", "onError"} =>
               /\ k = Len(requests)
               /\ ~loading'
    /\ loading /\ ~loading' => Ended(Len(requests))

\* C30: a submit while loading is true is ignored; a request that starts
\* otherwise aborts the earlier one; an aborted request calls neither
\* onSearch nor onError and leaves loading alone; only the most recent
\* request delivers a result and sets loading to false.
C30_OnlyLatestRequestDelivers ==
    [][/\ SubmitIgnoredWhileLoading
       /\ EarlierAborted
       /\ SupersededSilent
       /\ LatestDelivers]_vars

\* what of C30 the page does keep: the second to fourth parts
C30_SupersededNeverDelivers ==
    [][EarlierAborted /\ SupersededSilent /\ LatestDelivers]_vars

\* once the last request has settled, loading is false
C30_LoadingClearedWhenSettled ==
    (requests # <<>> /\ ~InFlight(Len(requests))) => ~loading

\* loading does not stay true for ever when every await ends
C30_LoadingEventuallyFalse == loading ~> ~loading
====
